---- MODULE Spec2Model ----
(***************************************************************************)
(* A model of the LDtk loader ldtkgo (src/ldtkgo.go): the hex colour       *)
(* parser, the grid/world conversions of a Layer, Read, which decodes a    *)
(* document and resolves its derived fields, the queries on the loaded     *)
(* Project, and the renderers that draw its levels.                        *)
(*                                                                         *)
(* Strings that the code inspects byte by byte (colour strings) are        *)
(* sequences of byte codes; identifiers are TLA+ strings.  A pointer is    *)
(* Nil or, for Layer.Tileset, the 1-based index of the Tileset in          *)
(* project.Tilesets, 0 when nil.                                           *)
(***************************************************************************)
EXTENDS Integers, Sequences, FiniteSets, TLC

VARIABLES
    str,        \* colour: the string handed to the parser
    colour,     \* colour: what the call returned (NotCalled before it)
    layer,      \* grid: the Layer whose conversions are called
    point,      \* grid: the world position (x, y) given to ToGridPosition
    gridPos,    \* grid: ToGridPosition's result (NotCalled before it)
    worldPos,   \* grid: FromGridPosition's result (NotCalled before it)
    data,       \* Read: the document
    project,    \* Read: what Read returned (NotCalled before it)
    query,      \* the last query on the loaded Project (NotCalled before any)
    renderer    \* the renderer drawing levels of the loaded Project (NoRenderer before it is made)

vars == <<str, colour, layer, point, gridPos, worldPos, data, project, query, renderer>>

Nil == [kind |-> "nil"]

\* What a call gave: nothing yet, a run-time panic, or Returned(v).
NotCalled == [kind |-> "not called"]
Panic == [kind |-> "panic"]
Returned(v) == [kind |-> "returned", val |-> v]

SeqsUpTo(S, n) == UNION {[1..k -> S] : k \in 0..n}

(***************************************************************************)
(* Bounds of the model.                                                    *)
(***************************************************************************)
MaxStrLen == 7
MaxCoord == 20
MaxCsv == 3
MaxTilesets == 2
MaxTiles == 2
MaxLevels == 2
MaxItems == 2

(***************************************************************************)
(* parseHexColorFast                                                       *)
(***************************************************************************)
ChHash == 35
Ch0 == 48
Ch9 == 57
ChUpperA == 65
ChUpperF == 70
ChLowerA == 97
ChLowerF == 102
ByteMod == 256
OpaqueAlpha == 255

\* color.RGBA{}: the zero value.
ZeroRGBA == [R |-> 0, G |-> 0, B |-> 0, A |-> 0]

\* hexToByte without the case for 'A'..'F'.
hexToByteNoUpper(b) ==
    IF b >= Ch0 /\ b <= Ch9 THEN [v |-> b - Ch0, bad |-> FALSE]
    ELSE IF b >= ChLowerA /\ b <= ChLowerF THEN [v |-> b - ChLowerA + 10, bad |-> FALSE]
    ELSE [v |-> 0, bad |-> TRUE]

\* The closure hexToByte: the digit's value, or 0 with err set.
hexToByte(b) ==
    IF b >= Ch0 /\ b <= Ch9 THEN [v |-> b - Ch0, bad |-> FALSE]
    ELSE IF b >= ChLowerA /\ b <= ChLowerF THEN [v |-> b - ChLowerA + 10, bad |-> FALSE]
    ELSE IF b >= ChUpperA /\ b <= ChUpperF THEN [v |-> b - ChUpperA + 10, bad |-> FALSE]
    ELSE [v |-> 0, bad |-> TRUE]

\* hexToByte(hi)<<4 + hexToByte(lo), in byte arithmetic.
HexPair(hi, lo) == (((hexToByte(hi).v * 16) % ByteMod) + hexToByte(lo).v) % ByteMod

\* hexToByte(d) * 17, in byte arithmetic.
HexDouble(d) == (hexToByte(d).v * 17) % ByteMod

AnyBad(s, from) == \E i \in from..Len(s) : hexToByte(s[i]).bad

\* The channels are assigned from c = {A: 0xff}; s[0] of an empty string is an
\* index out of range, a run-time panic.
parseHexColorFast(s) ==
    IF Len(s) = 0 THEN Panic
    ELSE IF s[1] # ChHash
        THEN Returned([c |-> [R |-> 0, G |-> 0, B |-> 0, A |-> OpaqueAlpha], err |-> TRUE])
    ELSE IF Len(s) = 7
        THEN Returned([c |-> [R |-> HexPair(s[2], s[3]), G |-> HexPair(s[4], s[5]),
                              B |-> HexPair(s[6], s[7]), A |-> OpaqueAlpha],
                       err |-> AnyBad(s, 2)])
    ELSE IF Len(s) = 4
        THEN Returned([c |-> [R |-> HexDouble(s[2]), G |-> HexDouble(s[3]),
                              B |-> HexDouble(s[4]), A |-> OpaqueAlpha],
                       err |-> AnyBad(s, 2)])
    ELSE Returned([c |-> [R |-> 0, G |-> 0, B |-> 0, A |-> OpaqueAlpha], err |-> TRUE])

\* Property.AsColor on a Property whose Value is the string s: the parser's
\* colour, its error dropped.
AsColor(s) ==
    IF parseHexColorFast(s) = Panic THEN Panic
    ELSE Returned(parseHexColorFast(s).val.c)

(***************************************************************************)
(* Layer.ToGridPosition / Layer.FromGridPosition                           *)
(***************************************************************************)
\* Division rounding down instead of toward zero.
GoDivFloor(a, b) == IF b > 0 THEN a \div b ELSE (-a) \div (-b)

\* Go's integer division: the quotient truncated toward zero (b # 0).
GoDiv(a, b) ==
    IF (a >= 0) = (b > 0) THEN (IF a >= 0 THEN a ELSE -a) \div (IF b > 0 THEN b ELSE -b)
    ELSE -((IF a >= 0 THEN a ELSE -a) \div (IF b > 0 THEN b ELSE -b))

\* x /= layer.GridSize is an integer divide by zero, a run-time panic, when the
\* GridSize is 0.
ToGridPosition(l, x, y) ==
    IF l.GridSize = 0 THEN Panic
    ELSE Returned(<<GoDiv(x, l.GridSize), GoDiv(y, l.GridSize)>>)

FromGridPosition(l, x, y) == Returned(<<x * l.GridSize, y * l.GridSize>>)

(***************************************************************************)
(* Read.  A document is a record of the JSON keys the code reads (the      *)
(* leading underscores of __cWid, __gridSize, __tilesetDefUid, __bgColor   *)
(* are dropped); an optional key is <<>> when absent or null and <<v>>     *)
(* when it holds v.                                                        *)
(***************************************************************************)
\* A decoded field: the key's value, or the Go zero value of the field.
Field(opt, zero) == IF opt = <<>> THEN zero ELSE opt[1]

\* A Tile whose Src is taken from "px".
DecodeTileSrcFromPx(td) ==
    [Position |-> td.px, Src |-> td.px, Flip |-> td.f, ID |-> td.t]

\* json.Unmarshal into a Tile: Position from "px", Src from "src" (the key matches
\* the untagged field), Flip from "f", ID from "t".
DecodeTile(td) ==
    [Position |-> td.px, Src |-> Field(td.src, <<>>), Flip |-> td.f, ID |-> td.t]

DecodeTiles(tds) == [i \in 1..Len(tds) |-> DecodeTile(tds[i])]

\* A Go map without keys, and the map m after m[k] = v.
EmptyMap == <<>>
MapPut(m, k, v) == [x \in DOMAIN m \cup {k} |-> IF x = k THEN v ELSE m[x]]

\* The value json.Unmarshal leaves in a field decoded from key: the zero value
\* when the JSON value under the key is of another type (the decoder records the
\* error and goes on), the value otherwise.
Typed(d, key, val, zero) == IF key \in d.wrongType THEN zero ELSE val

\* newTS after json.Unmarshal of one entry of defs.tilesets into a Tileset made
\* with two empty maps; the error of this Unmarshal is discarded.
DecodeTileset(d) ==
    [Path |-> d.relPath, ID |-> Typed(d, "uid", d.uid, 0), GridSize |-> d.tileGridSize,
     Spacing |-> d.spacing, Padding |-> d.padding, Width |-> d.pxWid,
     Identifier |-> d.identifier, CustomData |-> EmptyMap, Enums |-> EmptyMap]

\* A loop that goes on after a match: the index of the last element of list
\* whose Identifier is identifier, 0 when there is none.
LastByIdentifier(list, identifier) ==
    IF \E i \in 1..Len(list) : list[i].Identifier = identifier
        THEN CHOOSE i \in 1..Len(list) :
                /\ list[i].Identifier = identifier
                /\ \A j \in (i + 1)..Len(list) : list[j].Identifier # identifier
    ELSE 0

\* The loop shared by the five lookups, "for _, e := range list { if
\* e.Identifier == identifier { return e } }; return nil": the index of the first
\* element whose Identifier is identifier, 0 for nil.
FirstByIdentifier(list, identifier) ==
    IF \E i \in 1..Len(list) : list[i].Identifier = identifier
        THEN CHOOSE i \in 1..Len(list) :
                /\ list[i].Identifier = identifier
                /\ \A j \in 1..(i - 1) : list[j].Identifier # identifier
    ELSE 0

\* Project.TilesetByIdentifier on project.Tilesets.
TilesetByIdentifier(tilesets, identifier) == FirstByIdentifier(tilesets, identifier)

\* ts.Enums after the inner loop over the first n tile ids of one enum tag:
\* enumName appended to the EnumSet of each id, an empty one made where missing.
RECURSIVE EnumsAfterTiles(_, _, _, _)
EnumsAfterTiles(enums, enumTiles, n, enumName) ==
    IF n = 0 THEN enums
    ELSE LET before == EnumsAfterTiles(enums, enumTiles, n - 1, enumName)
             id == enumTiles[n]
         IN  MapPut(before, id,
                    Append(IF id \in DOMAIN before THEN before[id] ELSE <<>>, enumName))

\* ts.Enums after the loop over the first n entries of "enumTags".
RECURSIVE EnumsAfterTags(_, _, _)
EnumsAfterTags(enums, enumTags, n) ==
    IF n = 0 THEN enums
    ELSE EnumsAfterTiles(EnumsAfterTags(enums, enumTags, n - 1), enumTags[n].tileIds,
                         Len(enumTags[n].tileIds), enumTags[n].enumValueId)

\* newTS.CustomData after the loop over the first n entries of "customData".
RECURSIVE CustomDataAfter(_, _, _)
CustomDataAfter(customData, entries, n) ==
    IF n = 0 THEN customData
    ELSE MapPut(CustomDataAfter(customData, entries, n - 1), entries[n].tileId,
                entries[n].data)

\* project.Tilesets after the first n passes of the loop over defs.tilesets:
\* newTS is appended, the enum tags go to ts, the Tileset that
\* TilesetByIdentifier finds under the definition's identifier, and the custom
\* data goes to newTS.
RECURSIVE TilesetsAfter(_, _)
TilesetsAfter(d, n) ==
    IF n = 0 THEN <<>>
    ELSE LET tilesetDef == d.defs.tilesets[n]
             newTS == [DecodeTileset(tilesetDef) EXCEPT
                          !.CustomData = CustomDataAfter(@, tilesetDef.customData,
                                                         Len(tilesetDef.customData))]
             appended == Append(TilesetsAfter(d, n - 1), newTS)
             ts == TilesetByIdentifier(appended, tilesetDef.identifier)
         IN  [appended EXCEPT
                 ![ts].Enums = EnumsAfterTags(@, tilesetDef.enumTags,
                                              Len(tilesetDef.enumTags))]

\* project.Tilesets: one Tileset appended per entry of defs.tilesets.
ReadTilesets(d) == TilesetsAfter(d, Len(d.defs.tilesets))

\* The Integer of flat index id and value v on layer l: y is the quotient of the
\* float division id / CellWidth converted to int (exact for these sizes), x the
\* remainder.
NewInteger(id, v, l) ==
    LET y == GoDiv(id, l.CellWidth)
        x == id - y * l.CellWidth
    IN  [Value |-> v, ID |-> id, Position |-> <<x * l.GridSize, y * l.GridSize>>]

\* The loop without the test for zero: an Integer for every entry.
RECURSIVE ReadIntGridAll(_, _, _)
ReadIntGridAll(csv, n, l) ==
    IF n = 0 THEN <<>>
    ELSE Append(ReadIntGridAll(csv, n - 1, l), NewInteger(n - 1, csv[n], l))

\* The loop over intGridCsv: an Integer appended for each nonzero entry, the first
\* n entries done.
RECURSIVE ReadIntGrid(_, _, _)
ReadIntGrid(csv, n, l) ==
    IF n = 0 THEN <<>>
    ELSE IF csv[n] # 0
        THEN Append(ReadIntGrid(csv, n - 1, l), NewInteger(n - 1, csv[n], l))
    ELSE ReadIntGrid(csv, n - 1, l)

\* The loop without its break: the last Tileset whose ID is uid.
BindLastTileset(tilesets, uid) ==
    IF \E i \in 1..Len(tilesets) : tilesets[i].ID = uid
        THEN CHOOSE i \in 1..Len(tilesets) :
                /\ tilesets[i].ID = uid
                /\ \A j \in (i + 1)..Len(tilesets) : tilesets[j].ID # uid
    ELSE 0

\* The loop over project.Tilesets: the first Tileset whose ID is uid (its index),
\* or 0, the nil pointer the decoder left.
BindTileset(tilesets, uid) ==
    IF \E i \in 1..Len(tilesets) : tilesets[i].ID = uid
        THEN CHOOSE i \in 1..Len(tilesets) :
                /\ tilesets[i].ID = uid
                /\ \A j \in 1..(i - 1) : tilesets[j].ID # uid
    ELSE 0

\* json.Unmarshal into a Property, and into a list of them.
DecodeProperty(fd) == [Identifier |-> fd.identifier, Value |-> fd.value]
DecodeProperties(fds) == [i \in 1..Len(fds) |-> DecodeProperty(fds[i])]

\* json.Unmarshal into an Entity, and into a list of them.
DecodeEntity(ed) ==
    [Identifier |-> ed.identifier, Properties |-> DecodeProperties(ed.fieldInstances)]
DecodeEntities(eds) == [i \in 1..Len(eds) |-> DecodeEntity(eds[i])]

\* json.Unmarshal into a Layer.
DecodeLayer(ld) ==
    [Identifier |-> ld.identifier, GridSize |-> ld.gridSize, CellWidth |-> ld.cWid,
     TilesetUID |-> Field(ld.tilesetDefUid, 0),
     Tiles |-> DecodeTiles(ld.gridTiles), AutoTiles |-> DecodeTiles(ld.autoLayerTiles),
     Entities |-> DecodeEntities(ld.entityInstances),
     OffsetX |-> ld.pxTotalOffsetX, OffsetY |-> ld.pxTotalOffsetY,
     Type |-> ld.type, Visible |-> ld.visible]

\* The intGridCsv of the level's first layer, whatever the layer.
RawIntGridCsvFirstLayer(d, index, layerIndex) == d.levels[index].layerInstances[1].intGridCsv

\* The intGridCsv array at levels.<index>.layerInstances.<layerIndex> of the
\* document (0-based in the code, 1-based here).
RawIntGridCsv(d, index, layerIndex) == d.levels[index].layerInstances[layerIndex].intGridCsv

\* The body of the loop over level.Layers.
ResolveLayer(d, index, layerIndex, tilesets) ==
    LET l == DecodeLayer(d.levels[index].layerInstances[layerIndex])
        csv == RawIntGridCsv(d, index, layerIndex)
    IN  [Identifier |-> l.Identifier, GridSize |-> l.GridSize, CellWidth |-> l.CellWidth,
         TilesetUID |-> l.TilesetUID, Tiles |-> l.Tiles, AutoTiles |-> l.AutoTiles,
         Entities |-> l.Entities,
         OffsetX |-> l.OffsetX, OffsetY |-> l.OffsetY,
         Type |-> l.Type, Visible |-> l.Visible,
         IntGrid |-> ReadIntGrid(csv, Len(csv), l),
         Tileset |-> BindTileset(tilesets, l.TilesetUID)]

\* level.Layers as json.Unmarshal fills it from "layerInstances", each Layer
\* then resolved in place.
ReadLayers(d, index, tilesets) ==
    [layerIndex \in 1..Len(d.levels[index].layerInstances) |->
        ResolveLayer(d, index, layerIndex, tilesets)]

\* A BGColor that is color.RGBA{} whenever the parser reports an error.
ReadBGColorChecked(s) ==
    IF s # <<>> /\ ~parseHexColorFast(s).val.err THEN parseHexColorFast(s).val.c
    ELSE ZeroRGBA

\* BGColor of the Project and of a Level: parsed when the string is not empty
\* (the error dropped), color.RGBA{} otherwise.
ReadBGColor(s) == IF s # <<>> THEN parseHexColorFast(s).val.c ELSE ZeroRGBA

\* What gjson finds under "__bgPos" of a level: the arrays "scale" and
\* "cropRect", empty when the key or the object is missing.
NoBgPos == [scale |-> <<>>, cropRect |-> <<>>]
BgPos(levelData) == Field(levelData.bgPos, NoBgPos)

\* The condition under which the loop reads the background: "bgRelPath" exists
\* and is not the empty string.
HasBgRelPath(levelData) == Field(levelData.bgRelPath, "") # ""

\* A BGImage with the two entries of "scale" taken in the other order.
ReadBGImageScaleSwapped(levelData) ==
    IF HasBgRelPath(levelData)
        THEN [kind |-> "BGImage", Path |-> Field(levelData.bgRelPath, ""),
              ScaleX |-> BgPos(levelData).scale[2], ScaleY |-> BgPos(levelData).scale[1],
              CropRect |-> SubSeq(BgPos(levelData).cropRect, 1, 4)]
    ELSE Nil

\* level.BGImage: made from scale[0], scale[1] and cropRect[0..3] when the level
\* has a background path, the nil pointer otherwise.
ReadBGImage(levelData) ==
    IF HasBgRelPath(levelData)
        THEN [kind |-> "BGImage", Path |-> Field(levelData.bgRelPath, ""),
              ScaleX |-> BgPos(levelData).scale[1], ScaleY |-> BgPos(levelData).scale[2],
              CropRect |-> SubSeq(BgPos(levelData).cropRect, 1, 4)]
    ELSE Nil

\* The index expressions scale[1] and cropRect[3] run out of range.
BGImagePanics(levelData) ==
    /\ HasBgRelPath(levelData)
    /\ \/ Len(BgPos(levelData).scale) < 2
       \/ Len(BgPos(levelData).cropRect) < 4

\* The body of the loop over project.Levels.
ReadLevel(d, index, tilesets) ==
    [Identifier |-> d.levels[index].identifier,
     WorldX |-> d.levels[index].worldX, WorldY |-> d.levels[index].worldY,
     Width |-> d.levels[index].pxWid, Height |-> d.levels[index].pxHei,
     BGColorString |-> Field(d.levels[index].bgColor, <<>>),
     BGColor |-> ReadBGColor(Field(d.levels[index].bgColor, <<>>)),
     BGImage |-> ReadBGImage(d.levels[index]),
     Properties |-> DecodeProperties(d.levels[index].fieldInstances),
     Layers |-> ReadLayers(d, index, tilesets)]

\* project.IntGridNames after the first n entries of defs.layers, every entry
\* taken whatever its type.
RECURSIVE IntGridNamesOfAllLayers(_, _)
IntGridNamesOfAllLayers(layerDefs, n) ==
    IF n = 0 THEN <<>>
    ELSE IntGridNamesOfAllLayers(layerDefs, n - 1)
            \o [i \in 1..Len(layerDefs[n].intGridValues) |->
                    layerDefs[n].intGridValues[i].identifier]

\* project.IntGridNames after the first n entries of defs.layers: the
\* identifiers of the intGridValues of each entry of type "IntGrid", appended
\* to the empty list Read starts with.
RECURSIVE IntGridNamesAfter(_, _)
IntGridNamesAfter(layerDefs, n) ==
    IF n = 0 THEN <<>>
    ELSE IF layerDefs[n].type = "IntGrid"
        THEN IntGridNamesAfter(layerDefs, n - 1)
                \o [i \in 1..Len(layerDefs[n].intGridValues) |->
                        layerDefs[n].intGridValues[i].identifier]
    ELSE IntGridNamesAfter(layerDefs, n - 1)

\* json.Unmarshal of the document into the Project fails: the bytes are no JSON
\* value, or a key of a level holds a value of another type than its field.
\* Nothing of defs is decoded here, Project has no field for it.
UnmarshalFails(d) ==
    \/ ~d.syntaxOK
    \/ \E index \in 1..Len(d.levels) : d.levels[index].wrongType # {}

\* Read with the index expressions checked: nil and an error where they run out
\* of range.
ReadBackgroundChecked(d) ==
    LET tilesets == ReadTilesets(d)
    IN  IF UnmarshalFails(d) THEN Returned([project |-> Nil, err |-> TRUE])
        ELSE IF \E index \in 1..Len(d.levels) : BGImagePanics(d.levels[index])
            THEN Returned([project |-> Nil, err |-> TRUE])
        ELSE Returned([project |->
                     [kind |-> "Project",
                      BGColorString |-> Field(d.defaultLevelBgColor, <<>>),
                      BGColor |-> ReadBGColor(Field(d.defaultLevelBgColor, <<>>)),
                      Tilesets |-> tilesets,
                      Levels |-> [index \in 1..Len(d.levels) |-> ReadLevel(d, index, tilesets)],
                      IntGridNames |-> IntGridNamesAfter(d.defs.layers, Len(d.defs.layers))],
                  err |-> FALSE])

\* Read without its early return: the Project whatever json.Unmarshal reported,
\* and that error beside it.
ReadNoEarlyReturn(d) ==
    LET tilesets == ReadTilesets(d)
    IN  IF ~d.syntaxOK THEN Returned([project |-> Nil, err |-> TRUE])
        ELSE IF \E index \in 1..Len(d.levels) : BGImagePanics(d.levels[index]) THEN Panic
        ELSE Returned([project |->
                     [kind |-> "Project",
                      BGColorString |-> Field(d.defaultLevelBgColor, <<>>),
                      BGColor |-> ReadBGColor(Field(d.defaultLevelBgColor, <<>>)),
                      Tilesets |-> tilesets,
                      Levels |-> [index \in 1..Len(d.levels) |-> ReadLevel(d, index, tilesets)],
                      IntGridNames |-> IntGridNamesAfter(d.defs.layers, Len(d.defs.layers))],
                  err |-> UnmarshalFails(d)])

\* Read: nil and the error when json.Unmarshal fails; a panic when a level with
\* a background path lacks entries of "scale" or "cropRect"; the Project and
\* the nil error otherwise.
Read(d) ==
    LET tilesets == ReadTilesets(d)
    IN  IF UnmarshalFails(d) THEN Returned([project |-> Nil, err |-> TRUE])
        ELSE IF \E index \in 1..Len(d.levels) : BGImagePanics(d.levels[index]) THEN Panic
        ELSE Returned([project |->
                     [kind |-> "Project",
                      BGColorString |-> Field(d.defaultLevelBgColor, <<>>),
                      BGColor |-> ReadBGColor(Field(d.defaultLevelBgColor, <<>>)),
                      Tilesets |-> tilesets,
                      Levels |-> [index \in 1..Len(d.levels) |-> ReadLevel(d, index, tilesets)],
                      IntGridNames |-> IntGridNamesAfter(d.defs.layers, Len(d.defs.layers))],
                  err |-> FALSE])

(***************************************************************************)
(* Queries on a Project.  A pointer result is the index of the element in  *)
(* its list, 0 for nil.                                                    *)
(***************************************************************************)
LevelByIdentifier(p, identifier) == FirstByIdentifier(p.Levels, identifier)
LayerByIdentifier(level, identifier) == FirstByIdentifier(level.Layers, identifier)
EntityByIdentifier(l, identifier) == FirstByIdentifier(l.Entities, identifier)
LevelPropertyByIdentifier(level, id) == FirstByIdentifier(level.Properties, id)
EntityPropertyByIdentifier(entity, id) == FirstByIdentifier(entity.Properties, id)

Min(a, b) == IF a < b THEN a ELSE b
Max(a, b) == IF a < b THEN b ELSE a

\* image.Rect: the rectangle with the two corners put in order.
Rect(x0, y0, x1, y1) ==
    [MinX |-> Min(x0, x1), MinY |-> Min(y0, y1), MaxX |-> Max(x0, x1), MaxY |-> Max(y0, y1)]

LevelRect(level) ==
    Rect(level.WorldX, level.WorldY, level.WorldX + level.Width,
         level.WorldY + level.Height)

\* A test that leaves out the right and the bottom edge.
LevelContainsHalfOpen(level, x, y) ==
    /\ LevelRect(level).MinX <= x /\ LevelRect(level).MinY <= y
    /\ LevelRect(level).MaxX > x /\ LevelRect(level).MaxY > y

\* The test of LevelAt.
LevelContains(level, x, y) ==
    /\ LevelRect(level).MinX <= x /\ LevelRect(level).MinY <= y
    /\ LevelRect(level).MaxX >= x /\ LevelRect(level).MaxY >= y

\* Project.LevelAt: the first level that passes the test, 0 for nil.
LevelAt(p, x, y) ==
    IF \E i \in 1..Len(p.Levels) : LevelContains(p.Levels[i], x, y)
        THEN CHOOSE i \in 1..Len(p.Levels) :
                /\ LevelContains(p.Levels[i], x, y)
                /\ \A j \in 1..(i - 1) : ~LevelContains(p.Levels[j], x, y)
    ELSE 0

\* Project.IntGridConstantByName: the 0-based index of the first name equal to
\* constantName, -1 when there is none.
IntGridConstantByName(p, constantName) ==
    IF \E i \in 1..Len(p.IntGridNames) : p.IntGridNames[i] = constantName
        THEN (CHOOSE i \in 1..Len(p.IntGridNames) :
                /\ p.IntGridNames[i] = constantName
                /\ \A j \in 1..(i - 1) : p.IntGridNames[j] # constantName) - 1
    ELSE -1

(***************************************************************************)
(* Queries on a Layer, a Tile, a Tileset and a Property.                   *)
(***************************************************************************)
\* Layer.AllTiles: a fresh slice with the Tiles, then the AutoTiles.
AllTiles(l) == l.Tiles \o l.AutoTiles

\* The elements of layer.Tiles after AllTiles, had the AutoTiles been appended
\* to layer.Tiles itself.
TilesAppendedInPlace(l) == l.Tiles \o l.AutoTiles

\* The elements of layer.Tiles after AllTiles: the first append copies them
\* into the fresh slice, layer.Tiles keeps what it had.
TilesAfterAllTiles(l) == l.Tiles

\* The loop of TileAt, AutoTileAt and IntegerAt over list, whose elements have
\* a pixel Position: the index of the first element whose Position, put
\* through ToGridPosition, is (x, y), 0 for nil, both wrapped in Returned; a
\* panic when the loop divides by a GridSize of 0.
FirstAtGridPosition(list, l, x, y) ==
    IF list # <<>> /\ l.GridSize = 0 THEN Panic
    ELSE IF \E i \in 1..Len(list) :
                ToGridPosition(l, list[i].Position[1], list[i].Position[2]).val = <<x, y>>
        THEN Returned(CHOOSE i \in 1..Len(list) :
                /\ ToGridPosition(l, list[i].Position[1], list[i].Position[2]).val = <<x, y>>
                /\ \A j \in 1..(i - 1) :
                        ToGridPosition(l, list[j].Position[1], list[j].Position[2]).val
                            # <<x, y>>)
    ELSE Returned(0)

\* The loop, with the layer's offset taken off the tile's Position first.
TileAtWithOffset(l, x, y) ==
    FirstAtGridPosition(
        [i \in 1..Len(l.Tiles) |->
            [Position |-> <<l.Tiles[i].Position[1] - l.OffsetX,
                            l.Tiles[i].Position[2] - l.OffsetY>>]], l, x, y)

TileAt(l, x, y) == FirstAtGridPosition(l.Tiles, l, x, y)
AutoTileAt(l, x, y) == FirstAtGridPosition(l.AutoTiles, l, x, y)

\* The loop, with the arguments put through ToGridPosition as well.
IntegerAtWorld(l, x, y) ==
    IF l.GridSize = 0 THEN Panic
    ELSE FirstAtGridPosition(l.IntGrid, l, GoDivFloor(x, l.GridSize), GoDivFloor(y, l.GridSize))

IntegerAt(l, x, y) == FirstAtGridPosition(l.IntGrid, l, x, y)

\* Tile.FlipY as a test of the whole byte against 2.
FlipYAtLeastTwo(tile) == tile.Flip >= 2

\* Tile.FlipX and Tile.FlipY: t.Flip&1 > 0 and t.Flip&2 > 0 on a byte.
FlipX(tile) == tile.Flip % 2 = 1
FlipY(tile) == (tile.Flip \div 2) % 2 = 1

\* Tileset.CustomDataForTile and Tileset.EnumsForTile: the entry of the map, or
\* the empty string and the empty EnumSet.
CustomDataForTile(ts, tileID) ==
    IF tileID \in DOMAIN ts.CustomData THEN ts.CustomData[tileID] ELSE ""
EnumsForTile(ts, tileID) ==
    IF tileID \in DOMAIN ts.Enums THEN ts.Enums[tileID] ELSE <<>>

\* The accessors of Property.  A Value is what json.Unmarshal puts in an
\* interface{}: nil, a float64, a string, or a bool, here a record with its
\* dynamic type and one field per type; a float64 stands as its number of
\* halves (7 for 3.5).  A type assertion on another dynamic type panics.
AsFloat64(p) == IF p.Value.type = "float64" THEN Returned(p.Value.num) ELSE Panic

\* int(p.AsFloat64()): the fraction is dropped, toward zero.
AsInt(p) ==
    IF AsFloat64(p).kind = "panic" THEN Panic ELSE Returned(GoDiv(AsFloat64(p).val, 2))
AsString(p) == IF p.Value.type = "string" THEN Returned(p.Value.str) ELSE Panic
AsBool(p) == IF p.Value.type = "bool" THEN Returned(p.Value.bool) ELSE Panic
IsNull(p) == Returned(p.Value.type = "nil")
AsArray(p) == IF p.Value.type = "array" THEN Returned(p.Value) ELSE Panic
AsMap(p) == IF p.Value.type = "map" THEN Returned(p.Value) ELSE Panic
PropertyAsColorOf(p) ==
    IF AsString(p).kind = "panic" THEN Panic ELSE AsColor(AsString(p).val)

\* The accessor named fn on the Property p.
Accessor(fn, p) ==
    CASE fn = "AsInt" -> AsInt(p)
      [] fn = "AsFloat64" -> AsFloat64(p)
      [] fn = "AsString" -> AsString(p)
      [] fn = "AsBool" -> AsBool(p)
      [] fn = "AsArray" -> AsArray(p)
      [] fn = "AsMap" -> AsMap(p)
      [] fn = "IsNull" -> IsNull(p)
      [] fn = "AsColor" -> PropertyAsColorOf(p)

(***************************************************************************)
(* The renderers: EbitenRenderer (src/renderer/renderer.go and             *)
(* src/example/ebitenrenderer.go), RaylibRenderer (src/unnamed/part_002),  *)
(* Ebitengine and Renderer (src/unnamed/part_003).  The Tilesets map gives *)
(* for each path "absent" (no entry), "nil" (an entry without image) or    *)
(* "image".  A rendered layer stands as the place (level, layer) of the    *)
(* Layer it was made for; drawn is the set of places whose tiles the last  *)
(* Render drew; loads counts the calls of LoadTileset per path; op is the   *)
(* last call made on the renderer, renders the number of its Render calls, *)
(* level the level last given to Render.                                   *)
(***************************************************************************)
MaxRenders == 3

TilesetPaths == {"", "a.png", "b.png"}

NoRenderer == [kind |-> "none"]

\* The struct a constructor returns, with the Tilesets map given.
NewRendererState(kind, tilesets) ==
    [kind |-> kind, Tilesets |-> tilesets, CurrentTileset |-> "", RenderedLayers |-> <<>>,
     loads |-> [path \in TilesetPaths |-> 0], drawn |-> {}, renders |-> 0, level |-> 0,
     outcome |-> "ok", op |-> "New"]

\* The call ends in a panic, the struct as it is.
Panicked(r) == [r EXCEPT !.outcome = "panic"]

\* A test of the image in the map instead of the key.
CachedImage(r, tilesetPath) == r.Tilesets[tilesetPath] = "image"

\* _, exists := er.Tilesets[tilesetPath]
Cached(r, tilesetPath) == r.Tilesets[tilesetPath] # "absent"

\* setTileset / beginLayer: the tileset is loaded when the map has no entry for
\* the path, with or without an image as the loader decides, and a new image
\* is appended to RenderedLayers.
SetTileset(r, tilesetPath, place) ==
    {[r EXCEPT !.Tilesets[tilesetPath] = IF Cached(r, tilesetPath) THEN @ ELSE image,
               !.loads[tilesetPath] = IF Cached(r, tilesetPath) THEN @ ELSE @ + 1,
               !.CurrentTileset = tilesetPath,
               !.RenderedLayers = Append(@, place)] : image \in {"image", "nil"}}

\* The tiles of a layer drawn from the image tileset: onto the target when
\* there is an image; a call of SubImage or of the drawing function without an
\* image is left to the graphics library, which draws nothing or panics.
DrawTiles(r, tileset, place) ==
    IF tileset = "image" THEN {[r EXCEPT !.drawn = @ \cup {place}]}
    ELSE {r, Panicked(r)}

\* What the Render of src/renderer/renderer.go and of RaylibRenderer draws of a
\* layer: Tiles for the type Tiles, AutoTiles for IntGrid and AutoLayer.
TilesOfType(l) ==
    IF l.Type = "Tiles" THEN l.Tiles
    ELSE IF l.Type \in {"IntGrid", "AutoLayer"} THEN l.AutoTiles
    ELSE <<>>

\* One turn of the loop of Render in src/renderer/renderer.go and in
\* RaylibRenderer, on the layer l, whose TilesetPath is tilesetPath.
RenderLayerByPath(r, l, tilesetPath, place) ==
    IF r.outcome = "panic" THEN {r}
    ELSE IF Len(TilesOfType(l)) > 0
        THEN UNION {DrawTiles(s, s.Tilesets[s.CurrentTileset], place) :
                        s \in SetTileset(r, tilesetPath, place)}
    ELSE {r}

\* One turn of the loop of Render in src/example/ebitenrenderer.go: beginLayer
\* reads layer.Tileset.Path, a nil pointer dereference when the layer has no
\* Tileset.
ExampleRenderLayer(r, l, tilesets, place) ==
    IF r.outcome = "panic" THEN {r}
    ELSE IF l.Type \in {"IntGrid", "AutoLayer", "Tiles"} /\ Len(AllTiles(l)) > 0
        THEN IF l.Tileset = 0 THEN {Panicked(r)}
             ELSE UNION {DrawTiles(s, s.Tilesets[s.CurrentTileset], place) :
                            s \in SetTileset(r, tilesets[l.Tileset].Path, place)}
    ELSE {r}

\* e.Tilesets[path] of the renderers of part_003: the image, nil without entry.
TilesetImage(r, path) == IF r.Tilesets[path] = "image" THEN "image" ELSE "nil"

\* One turn of the loop of Ebitengine.Render: layer.Tileset.Path is read for
\* every layer with tiles.
EbitengineRenderLayer(r, l, tilesets, place) ==
    IF r.outcome = "panic" THEN {r}
    ELSE IF Len(AllTiles(l)) > 0
        THEN IF l.Tileset = 0 THEN {Panicked(r)}
             ELSE LET s == [r EXCEPT !.CurrentTileset =
                                         TilesetImage(r, tilesets[l.Tileset].Path)]
                  IN  DrawTiles(s, s.CurrentTileset, place)
    ELSE {r}

\* layer.ForEachTile: the function is called with each tile of the layer.
ForEachTile(l) == AllTiles(l)

\* One turn of the loop of Renderer.Render: a layer without Tileset, or with
\* the Tileset path "", is passed over.
RendererRenderLayer(r, l, tilesets, place) ==
    IF r.outcome = "panic" THEN {r}
    ELSE IF l.Tileset # 0 /\ tilesets[l.Tileset].Path # ""
        THEN LET s == [r EXCEPT !.CurrentTileset =
                                    TilesetImage(r, tilesets[l.Tileset].Path)]
             IN  IF Len(ForEachTile(l)) > 0 THEN DrawTiles(s, s.CurrentTileset, place)
                 ELSE {s}
    ELSE {r}

\* One turn of the loop of the renderer r on the layer layerIndex of the level
\* index of the Project p read from the document d.
RenderLayer(r, d, p, index, layerIndex) ==
    LET l == p.Levels[index].Layers[layerIndex]
        place == <<index, layerIndex>>
    IN  CASE r.kind \in {"EbitenRenderer", "RaylibRenderer"} ->
                RenderLayerByPath(r, l, d.levels[index].layerInstances[layerIndex].tilesetRelPath,
                                  place)
          [] r.kind = "example.EbitenRenderer" -> ExampleRenderLayer(r, l, p.Tilesets, place)
          [] r.kind = "Ebitengine" -> EbitengineRenderLayer(r, l, p.Tilesets, place)
          [] r.kind = "Renderer" -> RendererRenderLayer(r, l, p.Tilesets, place)

\* The loop over level.Layers, the first n layers of order done.
RECURSIVE RenderLayers(_, _, _, _, _, _)
RenderLayers(r, d, p, index, order, n) ==
    IF n = 0 THEN {r}
    ELSE UNION {RenderLayer(s, d, p, index, order[n]) :
                    s \in RenderLayers(r, d, p, index, order, n - 1)}

\* sort.Slice with a function that compares the indices, not the elements: the
\* order it leaves is not defined by the package; any order of the elements.
SortSlice(s) ==
    {[i \in 1..Len(s) |-> s[f[i]]] :
        f \in {g \in [1..Len(s) -> 1..Len(s)] :
                \A a, b \in 1..Len(s) : a # b => g[a] # g[b]}}

\* Clear: the rendered layers are disposed of and the list is emptied; the
\* Tilesets map is left as it is.
Clear(r) ==
    [r EXCEPT !.RenderedLayers = <<>>, !.drawn = {}, !.outcome = "ok", !.op = "Clear"]

\* Render of the three renderers that keep RenderedLayers: Clear, the loop
\* over the layers in list order, then the sort.
RenderToLayers(r, d, p, index) ==
    LET start == [Clear(r) EXCEPT !.renders = @ + 1, !.level = index, !.op = "Render"]
        order == [i \in 1..Len(p.Levels[index].Layers) |-> i]
    IN  UNION {IF s.outcome = "panic" THEN {s}
               ELSE {[s EXCEPT !.RenderedLayers = sorted] : sorted \in SortSlice(s.RenderedLayers)} :
                    s \in RenderLayers(start, d, p, index, order, Len(order))}

\* Render of the two renderers that draw to the screen, with the default draw
\* options: the error for a nil level (index 0), else the loop over the layers
\* from the last to the first.
RenderToScreen(r, d, p, index) ==
    LET start == [r EXCEPT !.renders = @ + 1, !.level = index, !.drawn = {}, !.op = "Render",
                           !.outcome = IF index = 0 THEN "error" ELSE "ok"]
        count == IF index = 0 THEN 0 ELSE Len(p.Levels[index].Layers)
        order == [i \in 1..count |-> count + 1 - i]
    IN  IF index = 0 THEN {start} ELSE RenderLayers(start, d, p, index, order, count)

\* The Tilesets map New fills: an image for the path of every Tileset of the
\* Project.
PreloadedTilesets(p) ==
    [path \in TilesetPaths |->
        IF \E i \in 1..Len(p.Tilesets) : p.Tilesets[i].Path = path THEN "image" ELSE "absent"]

\* A call of a query: the function, its string argument, the indices of the
\* level, layer and entity it is called on, its point, and its result.
Call(fn, id, at, x, y, result) ==
    [kind |-> "called", fn |-> fn, id |-> id, at |-> at, x |-> x, y |-> y,
     result |-> result]

(***************************************************************************)
(* Inputs.                                                                 *)
(***************************************************************************)
\* Bytes of every class the parser tells apart: '#', '0', 'F', 'a', and 'g',
\* which is no hex digit.
Alphabet == {ChHash, Ch0, ChUpperF, ChLowerA, 103}

\* The hex digits at the ends of the three ranges of hexToByte.
HexSample == {Ch0, Ch9, ChUpperA, ChUpperF, ChLowerA, ChLowerF}

\* Every string over Alphabet up to MaxStrLen bytes, and the '#RGB' and '#RRGGBB'
\* strings over HexSample.
Strings ==
    SeqsUpTo(Alphabet, MaxStrLen)
        \cup {<<ChHash>> \o d : d \in [1..3 -> HexSample] \cup [1..6 -> HexSample]}

GridSizes == {-3, 0, 1, 2, 3, 16}
Coords == (-MaxCoord)..MaxCoord

\* Background-colour keys: absent, "", "#F00", "#0a9fAF", and the malformed
\* "red", "F00F", "#12", "#F0000" and "#FG0".
BgColors ==
    {<<>>, <<<<>>>>, <<<<ChHash, ChUpperF, Ch0, Ch0>>>>,
     <<<<ChHash, Ch0, ChLowerA, Ch9, ChLowerF, ChUpperA, ChUpperF>>>>,
     <<<<114, 101, 100>>>>, <<<<ChUpperF, Ch0, Ch0, ChUpperF>>>>,
     <<<<ChHash, 49, 50>>>>, <<<<ChHash, ChUpperF, Ch0, Ch0, Ch0, Ch0>>>>,
     <<<<ChHash, ChUpperF, 71, Ch0>>>>}

\* A visible layer instance of type "Tiles" without offset and entities.
LayerDoc(id, g, w, uid, csv, tiles, auto) ==
    [identifier |-> id, gridSize |-> g, cWid |-> w, tilesetDefUid |-> uid,
     intGridCsv |-> csv, gridTiles |-> tiles, autoLayerTiles |-> auto,
     entityInstances |-> <<>>, pxTotalOffsetX |-> 0, pxTotalOffsetY |-> 0,
     type |-> "Tiles", visible |-> TRUE, tilesetRelPath |-> ""]

\* A level at the world's origin, 64 by 64 pixels, without background image or
\* fields.  wrongType is the set of the level's keys whose JSON value is of
\* another type than the field of Level they are decoded into.
LevelDoc(id, bg, layers) ==
    [identifier |-> id, bgColor |-> bg, layerInstances |-> layers,
     worldX |-> 0, worldY |-> 0, pxWid |-> 64, pxHei |-> 64,
     bgRelPath |-> <<>>, bgPos |-> <<>>, fieldInstances |-> <<>>, wrongType |-> {}]

\* A document of valid JSON syntax without layer definitions.
Doc(bg, tilesets, levels) ==
    [defaultLevelBgColor |-> bg, defs |-> [tilesets |-> tilesets, layers |-> <<>>],
     levels |-> levels, syntaxOK |-> TRUE]

\* Tileset definitions: "a" is 256 pixels wide with 32-pixel tiles, "b" is 67
\* wide with 16-pixel tiles, spacing 1 and padding 2; each under three uids.
TilesetDocs ==
    {[uid |-> u, identifier |-> "a", relPath |-> "a.png", pxWid |-> 256,
      tileGridSize |-> 32, spacing |-> 0, padding |-> 0,
      enumTags |-> <<>>, customData |-> <<>>, wrongType |-> {}] : u \in 0..2}
        \cup {[uid |-> u, identifier |-> "b", relPath |-> "b.png", pxWid |-> 67,
                tileGridSize |-> 16, spacing |-> 1, padding |-> 2,
                enumTags |-> <<>>, customData |-> <<>>, wrongType |-> {}] : u \in 0..2}

\* Tiles: the src of the document agrees with the tile ID on tileset "a" for
\* (t, src) = (0, (0, 0)) and (10, (64, 32)), and is absent or differs otherwise.
TileDocs ==
    [px : {<<0, 0>>, <<16, 16>>}, src : {<<>>, <<<<0, 0>>>>, <<<<64, 32>>>>},
     f : {0}, t : {0, 10}]

\* IntGrid layers of every content up to MaxCsv cells.
IntGridLayerDocs ==
    {LayerDoc("IntGrid", g, w, <<>>, csv, <<>>, <<>>) :
        g \in {8, 16}, w \in {1, 2}, csv \in SeqsUpTo(0..2, MaxCsv)}

\* Layers that declare no tileset uid or one of 0..3.
BindingLayerDocs ==
    {LayerDoc(id, 16, 2, uid, <<>>, <<>>, <<>>) :
        id \in {"Tiles", "Entities"}, uid \in {<<>>, <<0>>, <<1>>, <<2>>, <<3>>}}

\* Colours: every pair of a project colour and the colours of one or two levels.
IsColoursDoc(d) ==
    \E bg \in BgColors, a \in BgColors :
        \/ d = Doc(bg, <<>>, <<LevelDoc("A", a, <<>>)>>)
        \/ \E b \in BgColors :
                d = Doc(bg, <<>>, <<LevelDoc("A", a, <<>>), LevelDoc("B", b, <<>>)>>)

\* IntGrid: a level of one or two IntGrid layers, and two levels of one layer
\* each.
IsIntGridDoc(d) ==
    \/ \E a \in IntGridLayerDocs :
            d = Doc(<<>>, <<>>, <<LevelDoc("A", <<>>, <<a>>)>>)
    \/ \E a \in IntGridLayerDocs, b \in IntGridLayerDocs :
            \/ d = Doc(<<>>, <<>>, <<LevelDoc("A", <<>>, <<a, b>>)>>)
            \/ d = Doc(<<>>, <<>>, <<LevelDoc("A", <<>>, <<a>>), LevelDoc("B", <<>>, <<b>>)>>)

\* Binding: up to MaxTilesets tileset definitions, and one or two layers.
IsBindingDoc(d) ==
    \E tilesets \in SeqsUpTo(TilesetDocs, MaxTilesets), a \in BindingLayerDocs :
        \/ d = Doc(<<>>, tilesets, <<LevelDoc("A", <<>>, <<a>>)>>)
        \/ \E b \in BindingLayerDocs :
                d = Doc(<<>>, tilesets, <<LevelDoc("A", <<>>, <<a, b>>)>>)

\* Tiles: one tileset definition and a layer of up to MaxTiles tiles and up to
\* one auto-layer tile.
IsTilesDoc(d) ==
    \E ts \in TilesetDocs, uid \in {<<>>, <<1>>, <<3>>},
       tiles \in SeqsUpTo(TileDocs, MaxTiles), auto \in SeqsUpTo(TileDocs, 1) :
        d = Doc(<<>>, <<ts>>,
                <<LevelDoc("A", <<>>, <<LayerDoc("Tiles", 16, 2, uid, <<>>, tiles, auto)>>)>>)

IsDoc(d) == IsColoursDoc(d) \/ IsIntGridDoc(d) \/ IsBindingDoc(d) \/ IsTilesDoc(d)

\* Tileset definitions whose "uid" is a number, or a string.
TypedTilesetDocs == {[td EXCEPT !.wrongType = w] : td \in TilesetDocs, w \in {{}, {"uid"}}}

\* Levels whose "pxWid" is a number, or a string.
TypedLevelDocs ==
    {[LevelDoc(id, <<>>, <<>>) EXCEPT !.wrongType = w] :
        id \in {"Level_0", "Level_1"}, w \in {{}, {"pxWid"}}}

\* Decoding: bytes that are a JSON document or not, up to MaxTilesets tileset
\* definitions and up to two levels.
IsDecodeDoc(d) ==
    \E ok \in BOOLEAN, tilesets \in SeqsUpTo(TypedTilesetDocs, MaxTilesets),
       levels \in SeqsUpTo(TypedLevelDocs, MaxLevels) :
        d = [Doc(<<>>, tilesets, levels) EXCEPT !.syntaxOK = ok]

\* Enum tags of a tileset definition: none, "Solid" on tiles 0 and 1, "Solid"
\* and "Water" both on tile 0, and "Water" on tile 1 twice.
EnumTagLists ==
    {<<>>,
     <<[enumValueId |-> "Solid", tileIds |-> <<0, 1>>]>>,
     <<[enumValueId |-> "Solid", tileIds |-> <<0>>],
       [enumValueId |-> "Water", tileIds |-> <<0>>]>>,
     <<[enumValueId |-> "Water", tileIds |-> <<1, 1>>]>>}

\* Custom data of a tileset definition: none, "x" on tile 0, "x" then "y" on
\* tile 0, and "z" on tile 1.
CustomDataLists ==
    {<<>>,
     <<[tileId |-> 0, data |-> "x"]>>,
     <<[tileId |-> 0, data |-> "x"], [tileId |-> 0, data |-> "y"]>>,
     <<[tileId |-> 1, data |-> "z"]>>}

TaggedTilesetDocs ==
    {[td EXCEPT !.enumTags = e, !.customData = c] :
        td \in {x \in TilesetDocs : x.uid = 1}, e \in EnumTagLists, c \in CustomDataLists}

\* Tags: up to MaxTilesets tileset definitions with enum tags and custom data,
\* identifiers repeated or not.
IsTagsDoc(d) ==
    \E tilesets \in SeqsUpTo(TaggedTilesetDocs, MaxTilesets) : d = Doc(<<>>, tilesets, <<>>)

\* The key "bgRelPath" of a level: absent, "", or a path.
BgRelPaths == {<<>>, <<"">>, <<"bg.png">>}

\* The key "__bgPos" of a level: absent, or an object whose "scale" has 0 to 3
\* entries and whose "cropRect" has 0, 3, 4 or 5 (floats stand as integers).
BgPositions ==
    {<<>>} \cup
    {<<[scale |-> s, cropRect |-> c]>> :
        s \in {<<>>, <<1>>, <<1, 2>>, <<2, 1>>, <<2, 2, 3>>},
        c \in {<<>>, <<0, 0, 64>>, <<0, 0, 64, 32>>, <<8, 4, 64, 32>>, <<0, 0, 64, 32, 7>>}}

BackgroundLevelDocs ==
    {[LevelDoc("Level_0", <<>>, <<>>) EXCEPT !.bgRelPath = path, !.bgPos = pos] :
        path \in BgRelPaths, pos \in BgPositions}

\* Backgrounds: one or two levels with or without a background image.
IsBackgroundDoc(d) ==
    \/ \E l1 \in BackgroundLevelDocs : d = Doc(<<>>, <<>>, <<l1>>)
    \/ \E l1 \in BackgroundLevelDocs, l2 \in BackgroundLevelDocs :
            d = Doc(<<>>, <<>>, <<l1, l2>>)

\* Grids: one tileset of uid 1, and one or two layers of grid size -16, 0, 8 or
\* 16 that declare no tileset uid, uid 1, or uid 2.
GridLayerDocs ==
    {LayerDoc("Tiles", g, 2, uid, <<>>, <<>>, <<>>) :
        g \in {-16, 0, 8, 16}, uid \in {<<>>, <<1>>, <<2>>}}

IsGridDoc(d) ==
    \E td \in {x \in TilesetDocs : x.uid = 1} :
        \/ \E l1 \in GridLayerDocs :
                d = Doc(<<>>, <<td>>, <<LevelDoc("Level_0", <<>>, <<l1>>)>>)
        \/ \E l1 \in GridLayerDocs, l2 \in GridLayerDocs :
                d = Doc(<<>>, <<td>>, <<LevelDoc("Level_0", <<>>, <<l1, l2>>)>>)

IsLoadDoc(d) == IsDecodeDoc(d) \/ IsTagsDoc(d) \/ IsBackgroundDoc(d) \/ IsGridDoc(d)

\* Placements <<worldX, worldY, pxWid, pxHei>>: a 64-pixel square at the origin,
\* its right and lower neighbours, a square across their corners, an empty
\* level, and a level of negative width.
Placements ==
    {<<0, 0, 64, 64>>, <<64, 0, 64, 64>>, <<0, 64, 64, 64>>, <<32, 32, 64, 64>>,
     <<0, 0, 0, 0>>, <<64, 0, -64, 64>>}

PlacedLevelDocs ==
    {[LevelDoc(id, <<>>, <<>>) EXCEPT !.worldX = r[1], !.worldY = r[2],
                                       !.pxWid = r[3], !.pxHei = r[4]] :
        id \in {"Level_0", "Level_1"}, r \in Placements}

\* Fields, and entities that carry them.
PropertyDocs == [identifier : {"hp", "name"}, value : {1}]
EntityDoc(id, fields) == [identifier |-> id, fieldInstances |-> fields]

\* Levels: up to MaxLevels placed levels, names repeated or not.
IsLevelsDoc(d) ==
    \E levels \in SeqsUpTo(PlacedLevelDocs, MaxLevels) : d = Doc(<<>>, <<>>, levels)

\* Tilesets: up to MaxTilesets definitions, identifiers repeated or not.
IsTilesetsDoc(d) ==
    \E tilesets \in SeqsUpTo(TilesetDocs, MaxTilesets) : d = Doc(<<>>, tilesets, <<>>)

\* Layers: one level of up to MaxItems layers, names repeated or not.
IsLayersDoc(d) ==
    \E ids \in SeqsUpTo({"Tiles", "Entities"}, MaxItems) :
        d = Doc(<<>>, <<>>,
                <<LevelDoc("Level_0", <<>>,
                           [i \in 1..Len(ids) |->
                               LayerDoc(ids[i], 16, 2, <<>>, <<>>, <<>>, <<>>)])>>)

\* Entities: one layer of up to MaxItems entities, names repeated or not.
IsEntitiesDoc(d) ==
    \E ids \in SeqsUpTo({"Player", "Enemy"}, MaxItems) :
        d = Doc(<<>>, <<>>,
                <<LevelDoc("Level_0", <<>>,
                           <<[LayerDoc("Entities", 16, 2, <<>>, <<>>, <<>>, <<>>) EXCEPT
                                 !.entityInstances =
                                     [i \in 1..Len(ids) |-> EntityDoc(ids[i], <<>>)]]>>)>>)

\* Properties: up to MaxItems fields on a level and on its one entity.
IsPropertiesDoc(d) ==
    \E lf \in SeqsUpTo(PropertyDocs, MaxItems), ef \in SeqsUpTo(PropertyDocs, MaxItems) :
        d = Doc(<<>>, <<>>,
                <<[LevelDoc("Level_0", <<>>,
                            <<[LayerDoc("Entities", 16, 2, <<>>, <<>>, <<>>, <<>>) EXCEPT
                                  !.entityInstances = <<EntityDoc("Player", ef)>>]>>)
                      EXCEPT !.fieldInstances = lf]>>)

\* The intGridValues of a layer definition: up to MaxItems values numbered from
\* 1 as LDtk numbers them, named "wall" or "water".
IntGridValueLists ==
    {[i \in 1..Len(names) |-> [value |-> i, identifier |-> names[i]]] :
        names \in SeqsUpTo({"wall", "water"}, MaxItems)}

LayerDefDocs == [type : {"IntGrid", "Tiles"}, intGridValues : IntGridValueLists]

\* Names: up to two layer definitions, and a level whose IntGrid layer has one
\* cell painted with value 1 and one with value 2.
IsNamesDoc(d) ==
    \E layerDefs \in SeqsUpTo(LayerDefDocs, 2) :
        d = [Doc(<<>>, <<>>,
                 <<LevelDoc("Level_0", <<>>,
                            <<LayerDoc("IntGrid", 16, 2, <<>>, <<1, 2>>, <<>>, <<>>)>>)>>)
                EXCEPT !.defs.layers = layerDefs]

\* Cells: a tileset of uid 1 and an IntGrid layer of grid size 16, one or two
\* cells wide, with up to MaxCsv cells of value 0, 1 or 2.
IsCellsDoc(d) ==
    \E td \in {x \in TilesetDocs : x.uid = 1 /\ x.identifier = "a"} :
        \E w \in {1, 2}, csv \in SeqsUpTo(0..2, MaxCsv) :
            d = Doc(<<>>, <<td>>,
                    <<LevelDoc("Level_0", <<>>,
                               <<[LayerDoc("IntGrid", 16, w, <<>>, csv, <<>>, <<>>) EXCEPT
                                     !.type = "IntGrid"]>>)>>)

\* Tiles at pixel positions in the grid cells (0, 0), (1, 1), again (1, 1), and
\* left of the layer.
PlacedTileDocs ==
    [px : {<<0, 0>>, <<16, 16>>, <<24, 16>>, <<-8, 0>>}, src : {<<<<0, 0>>>>}, f : {0}, t : {0}]

\* Placed tiles: a layer of grid size 16, at offset (0, 0) or (16, 16), with up to
\* MaxTiles tiles and no or one auto-layer tile.
IsPlacedTilesDoc(d) ==
    \E tiles \in SeqsUpTo(PlacedTileDocs, MaxTiles),
       auto \in {<<>>, <<[px |-> <<16, 16>>, src |-> <<<<0, 0>>>>, f |-> 0, t |-> 1]>>},
       offset \in {0, 16} :
        d = Doc(<<>>, <<>>,
                <<LevelDoc("Level_0", <<>>,
                           <<[LayerDoc("Tiles", 16, 4, <<>>, <<>>, tiles, auto) EXCEPT
                                 !.pxTotalOffsetX = offset, !.pxTotalOffsetY = offset]>>)>>)

\* Flip bytes: every combination of the three low bits, and the two highest
\* bytes.
FlipBytes == {0, 1, 2, 3, 4, 5, 6, 7, 254, 255}

\* Flips: one tile with each flip byte.
IsFlipDoc(d) ==
    \E f \in FlipBytes :
        d = Doc(<<>>, <<>>,
                <<LevelDoc("Level_0", <<>>,
                           <<LayerDoc("Tiles", 16, 4, <<>>, <<>>,
                                      <<[px |-> <<0, 0>>, src |-> <<<<0, 0>>>>, f |-> f,
                                         t |-> 0]>>, <<>>)>>)>>)

\* A "__value": its dynamic type after decoding and the value under it.
Value(type, num, s, b) == [type |-> type, num |-> num, str |-> s, bool |-> b]

\* The values null, 3.5, -3.5, "#F00", "", "red", true, an array and an object.
ValueDocs ==
    {Value("nil", 0, <<>>, FALSE), Value("float64", 7, <<>>, FALSE),
     Value("float64", -7, <<>>, FALSE),
     Value("string", 0, <<ChHash, ChUpperF, Ch0, Ch0>>, FALSE),
     Value("string", 0, <<>>, FALSE), Value("string", 0, <<114, 101, 100>>, FALSE),
     Value("bool", 0, <<>>, TRUE), Value("array", 0, <<>>, FALSE),
     Value("map", 0, <<>>, FALSE)}

\* Values: a level with one field of each value, and one entity with the same
\* field.
IsValuesDoc(d) ==
    \E v \in ValueDocs :
        d = Doc(<<>>, <<>>,
                <<[LevelDoc("Level_0", <<>>,
                            <<[LayerDoc("Entities", 16, 4, <<>>, <<>>, <<>>, <<>>) EXCEPT
                                  !.type = "Entities",
                                  !.entityInstances =
                                      <<EntityDoc("Player",
                                                  <<[identifier |-> "hp", value |-> v]>>)>>]>>)
                      EXCEPT !.fieldInstances = <<[identifier |-> "hp", value |-> v]>>]>>)

\* Tagged tilesets: one tileset definition with enum tags and custom data.
IsTaggedTilesetDoc(d) == \E td \in TaggedTilesetDocs : d = Doc(<<>>, <<td>>, <<>>)

IsLayerDoc(d) ==
    \/ IsCellsDoc(d)
    \/ IsPlacedTilesDoc(d)
    \/ IsFlipDoc(d)
    \/ IsValuesDoc(d)
    \/ IsTaggedTilesetDoc(d)

\* The tileset definitions of uid 1, "a.png", and uid 2, "b.png".
RenderTilesetDocs ==
    <<CHOOSE td \in TilesetDocs : td.uid = 1 /\ td.identifier = "a",
      CHOOSE td \in TilesetDocs : td.uid = 2 /\ td.identifier = "b">>

RenderTileDoc == [px |-> <<0, 0>>, src |-> <<<<0, 0>>>>, f |-> 0, t |-> 0]

\* A layer to render: its "__tilesetRelPath" is that of the tileset it declares.
RenderLayerDoc(type, visible, uid, tiles, auto) ==
    [LayerDoc(type, 16, 4, uid, <<>>, tiles, auto) EXCEPT
        !.type = type, !.visible = visible,
        !.tilesetRelPath = IF uid = <<1>> THEN "a.png" ELSE IF uid = <<2>> THEN "b.png" ELSE ""]

\* Rendering: two tilesets; a level with one layer of any type, visible or not,
\* with or without a declared tileset, a tile and an auto-layer tile, and a
\* second level; or one level of two tile layers.
IsRenderDoc(d) ==
    \/ \E type \in {"Tiles", "IntGrid", "AutoLayer", "Entities"}, visible \in BOOLEAN,
          uid \in {<<>>, <<1>>, <<2>>}, tiles \in {<<>>, <<RenderTileDoc>>},
          auto \in {<<>>, <<RenderTileDoc>>} :
            d = Doc(<<>>, RenderTilesetDocs,
                    <<LevelDoc("Level_0", <<>>,
                               <<RenderLayerDoc(type, visible, uid, tiles, auto)>>),
                      LevelDoc("Level_1", <<>>,
                               <<RenderLayerDoc("Tiles", TRUE, <<1>>, <<RenderTileDoc>>,
                                                <<>>)>>)>>)
    \/ \E v1 \in BOOLEAN, v2 \in BOOLEAN, u1 \in {<<1>>, <<2>>}, u2 \in {<<1>>, <<2>>} :
            d = Doc(<<>>, RenderTilesetDocs,
                    <<LevelDoc("Level_0", <<>>,
                               <<RenderLayerDoc("Tiles", v1, u1, <<RenderTileDoc>>, <<>>),
                                 RenderLayerDoc("Tiles", v2, u2, <<RenderTileDoc>>, <<>>)>>)>>)

IsQueryDoc(d) ==
    \/ IsNamesDoc(d)
    \/ IsLevelsDoc(d)
    \/ IsTilesetsDoc(d)
    \/ IsLayersDoc(d)
    \/ IsEntitiesDoc(d)
    \/ IsPropertiesDoc(d)

\* The arguments of the queries: for each lookup the two names the documents
\* use and one they do not; the points on and beside the edges of the levels.
LevelNames == {"Level_0", "Level_1", "Level_9"}
TilesetNames == {"a", "b", "c"}
LayerNames == {"Tiles", "Entities", "IntGrid"}
EntityNames == {"Player", "Enemy", "Chest"}
PropertyNames == {"hp", "name", "speed"}
ConstantNames == {"wall", "water", "lava"}
PointsX == {-1, 0, 32, 64, 65, 128, 129}
PointsY == {-1, 0, 64, 96, 129}
Accessors == {"AsInt", "AsFloat64", "AsString", "AsBool", "AsArray", "AsMap", "IsNull", "AsColor"}
CellsX == {-1, 0, 1, 2, 16}
CellsY == {0, 1, 2, 16}
TileCellsX == {-1, 0, 1, 2}
TileCellsY == {0, 1}
PixelsX == {-8, 24}
PixelsY == {0, 16}
TileIDs == {0, 1, 2}

IdleColour == str = <<>> /\ colour = NotCalled
IdleGrid == layer = Nil /\ point = Nil /\ gridPos = NotCalled /\ worldPos = NotCalled
IdleRead == data = Nil /\ project = NotCalled
IdleQuery == query = NotCalled
IdleRender == renderer = NoRenderer

(***************************************************************************)
(* The colour parser on its own.                                           *)
(***************************************************************************)
InitColour ==
    /\ str \in Strings
    /\ colour = NotCalled
    /\ IdleGrid
    /\ IdleRead
    /\ IdleQuery
    /\ IdleRender

ParseHexColor ==
    /\ colour = NotCalled
    /\ colour' = [fn |-> "parseHexColorFast", ret |-> parseHexColorFast(str)]
    /\ UNCHANGED <<str, layer, point, gridPos, worldPos, data, project, query, renderer>>

PropertyAsColor ==
    /\ colour = NotCalled
    /\ colour' = [fn |-> "AsColor", ret |-> AsColor(str)]
    /\ UNCHANGED <<str, layer, point, gridPos, worldPos, data, project, query, renderer>>

NextColour == ParseHexColor \/ PropertyAsColor

SpecColour == InitColour /\ [][NextColour]_vars

(***************************************************************************)
(* The grid conversions of a Layer.                                        *)
(***************************************************************************)
InitGrid ==
    /\ layer \in [GridSize : GridSizes]
    /\ point \in Coords \X Coords
    /\ gridPos = NotCalled
    /\ worldPos = NotCalled
    /\ IdleColour
    /\ IdleRead
    /\ IdleQuery
    /\ IdleRender

LayerToGridPosition ==
    /\ gridPos = NotCalled
    /\ gridPos' = ToGridPosition(layer, point[1], point[2])
    /\ UNCHANGED <<str, colour, layer, point, worldPos, data, project, query, renderer>>

LayerFromGridPosition ==
    /\ gridPos.kind = "returned"
    /\ worldPos = NotCalled
    /\ worldPos' = FromGridPosition(layer, gridPos.val[1], gridPos.val[2])
    /\ UNCHANGED <<str, colour, layer, point, gridPos, data, project, query, renderer>>

NextGrid == LayerToGridPosition \/ LayerFromGridPosition

SpecGrid == InitGrid /\ [][NextGrid]_vars

(***************************************************************************)
(* Read on a document.                                                     *)
(***************************************************************************)
InitRead ==
    /\ IsDoc(data)
    /\ project = NotCalled
    /\ IdleColour
    /\ IdleGrid
    /\ IdleQuery
    /\ IdleRender

ReadData ==
    /\ project = NotCalled
    /\ project' = Read(data)
    /\ UNCHANGED <<str, colour, layer, point, gridPos, worldPos, data, query, renderer>>

NextRead == ReadData

SpecRead == InitRead /\ [][NextRead]_vars

(***************************************************************************)
(* Read on documents that fail to decode, and on the parts of a document   *)
(* that Read takes from the raw text: enum tags, custom data, IntGrid      *)
(* names and the background image.                                         *)
(***************************************************************************)
InitLoad ==
    /\ IsLoadDoc(data)
    /\ project = NotCalled
    /\ IdleColour
    /\ IdleGrid
    /\ IdleQuery
    /\ IdleRender

SpecLoad == InitLoad /\ [][NextRead]_vars

(***************************************************************************)
(* Read, then any number of queries on the Project it returned.            *)
(***************************************************************************)
InitQuery ==
    /\ IsQueryDoc(data)
    /\ project = NotCalled
    /\ IdleColour
    /\ IdleGrid
    /\ IdleQuery
    /\ IdleRender

CanQuery == project.kind = "returned" /\ ~project.val.err

ProjectLevelByIdentifier ==
    /\ CanQuery
    /\ \E identifier \in LevelNames :
        query' = Call("LevelByIdentifier", identifier, <<0, 0, 0>>, 0, 0,
                      LevelByIdentifier(project.val.project, identifier))
    /\ UNCHANGED <<str, colour, layer, point, gridPos, worldPos, data, project, renderer>>

ProjectTilesetByIdentifier ==
    /\ CanQuery
    /\ \E identifier \in TilesetNames :
        query' = Call("TilesetByIdentifier", identifier, <<0, 0, 0>>, 0, 0,
                      TilesetByIdentifier(project.val.project.Tilesets, identifier))
    /\ UNCHANGED <<str, colour, layer, point, gridPos, worldPos, data, project, renderer>>

LevelLayerByIdentifier ==
    /\ CanQuery
    /\ \E li \in 1..Len(project.val.project.Levels), identifier \in LayerNames :
        query' = Call("LayerByIdentifier", identifier, <<li, 0, 0>>, 0, 0,
                      LayerByIdentifier(project.val.project.Levels[li], identifier))
    /\ UNCHANGED <<str, colour, layer, point, gridPos, worldPos, data, project, renderer>>

LayerEntityByIdentifier ==
    /\ CanQuery
    /\ \E li \in 1..Len(project.val.project.Levels), identifier \in EntityNames :
        \E yi \in 1..Len(project.val.project.Levels[li].Layers) :
            query' = Call("EntityByIdentifier", identifier, <<li, yi, 0>>, 0, 0,
                          EntityByIdentifier(project.val.project.Levels[li].Layers[yi],
                                             identifier))
    /\ UNCHANGED <<str, colour, layer, point, gridPos, worldPos, data, project, renderer>>

LevelPropertyByIdentifierCall ==
    /\ CanQuery
    /\ \E li \in 1..Len(project.val.project.Levels), id \in PropertyNames :
        query' = Call("Level.PropertyByIdentifier", id, <<li, 0, 0>>, 0, 0,
                      LevelPropertyByIdentifier(project.val.project.Levels[li], id))
    /\ UNCHANGED <<str, colour, layer, point, gridPos, worldPos, data, project, renderer>>

EntityPropertyByIdentifierCall ==
    /\ CanQuery
    /\ \E li \in 1..Len(project.val.project.Levels), id \in PropertyNames :
        \E yi \in 1..Len(project.val.project.Levels[li].Layers) :
            \E ei \in 1..Len(project.val.project.Levels[li].Layers[yi].Entities) :
                query' = Call("Entity.PropertyByIdentifier", id, <<li, yi, ei>>, 0, 0,
                              EntityPropertyByIdentifier(
                                  project.val.project.Levels[li].Layers[yi].Entities[ei], id))
    /\ UNCHANGED <<str, colour, layer, point, gridPos, worldPos, data, project, renderer>>

ProjectLevelAt ==
    /\ CanQuery
    /\ \E x \in PointsX, y \in PointsY :
        query' = Call("LevelAt", "", <<0, 0, 0>>, x, y, LevelAt(project.val.project, x, y))
    /\ UNCHANGED <<str, colour, layer, point, gridPos, worldPos, data, project, renderer>>

ProjectIntGridConstantByName ==
    /\ CanQuery
    /\ \E constantName \in ConstantNames :
        query' = Call("IntGridConstantByName", constantName, <<0, 0, 0>>, 0, 0,
                      IntGridConstantByName(project.val.project, constantName))
    /\ UNCHANGED <<str, colour, layer, point, gridPos, worldPos, data, project, renderer>>

NextQuery ==
    \/ ReadData
    \/ ProjectIntGridConstantByName
    \/ ProjectLevelByIdentifier
    \/ ProjectTilesetByIdentifier
    \/ LevelLayerByIdentifier
    \/ LayerEntityByIdentifier
    \/ LevelPropertyByIdentifierCall
    \/ EntityPropertyByIdentifierCall
    \/ ProjectLevelAt

SpecQuery == InitQuery /\ [][NextQuery]_vars

\* ---------------------------------------------------------------------------
\* Queries on the layers, tiles, tilesets and properties of a loaded Project
\* ---------------------------------------------------------------------------

InitLayer ==
    /\ IsLayerDoc(data)
    /\ project = NotCalled
    /\ IdleColour
    /\ IdleGrid
    /\ IdleQuery
    /\ IdleRender

\* The places of the layers of the loaded Project.
LoadedLayers ==
    {at \in (1..MaxLevels) \X (1..1) :
        /\ at[1] <= Len(project.val.project.Levels)
        /\ at[2] <= Len(project.val.project.Levels[at[1]].Layers)}

LoadedLayer(at) == project.val.project.Levels[at[1]].Layers[at[2]]

LayerAllTiles ==
    /\ CanQuery
    /\ \E at \in LoadedLayers :
        /\ query' = Call("AllTiles", "", <<at[1], at[2], 0>>, 0, 0,
                         AllTiles(LoadedLayer(at)))
        /\ project' = [project EXCEPT
                           !.val.project.Levels[at[1]].Layers[at[2]].Tiles =
                               TilesAfterAllTiles(LoadedLayer(at))]
    /\ UNCHANGED <<str, colour, layer, point, gridPos, worldPos, data, renderer>>

LayerTileAt ==
    /\ CanQuery
    /\ \E at \in LoadedLayers, x \in TileCellsX, y \in TileCellsY :
        query' = Call("TileAt", "", <<at[1], at[2], 0>>, x, y, TileAt(LoadedLayer(at), x, y))
    /\ UNCHANGED <<str, colour, layer, point, gridPos, worldPos, data, project, renderer>>

LayerAutoTileAt ==
    /\ CanQuery
    /\ \E at \in LoadedLayers, x \in TileCellsX, y \in TileCellsY :
        query' = Call("AutoTileAt", "", <<at[1], at[2], 0>>, x, y,
                      AutoTileAt(LoadedLayer(at), x, y))
    /\ UNCHANGED <<str, colour, layer, point, gridPos, worldPos, data, project, renderer>>

LayerIntegerAt ==
    /\ CanQuery
    /\ \E at \in LoadedLayers, x \in CellsX, y \in CellsY :
        query' = Call("IntegerAt", "", <<at[1], at[2], 0>>, x, y,
                      IntegerAt(LoadedLayer(at), x, y))
    /\ UNCHANGED <<str, colour, layer, point, gridPos, worldPos, data, project, renderer>>

LoadedLayerToGridPosition ==
    /\ CanQuery
    /\ \E at \in LoadedLayers, x \in PixelsX, y \in PixelsY :
        query' = Call("ToGridPosition", "", <<at[1], at[2], 0>>, x, y,
                      ToGridPosition(LoadedLayer(at), x, y))
    /\ UNCHANGED <<str, colour, layer, point, gridPos, worldPos, data, project, renderer>>

LoadedLayerFromGridPosition ==
    /\ CanQuery
    /\ \E at \in LoadedLayers, x \in PixelsX, y \in PixelsY :
        query' = Call("FromGridPosition", "", <<at[1], at[2], 0>>, x, y,
                      FromGridPosition(LoadedLayer(at), x, y))
    /\ UNCHANGED <<str, colour, layer, point, gridPos, worldPos, data, project, renderer>>

TileFlipX ==
    /\ CanQuery
    /\ \E at \in LoadedLayers :
        \E ti \in 1..Len(AllTiles(LoadedLayer(at))) :
            query' = Call("FlipX", "", <<at[1], at[2], ti>>, 0, 0,
                          FlipX(AllTiles(LoadedLayer(at))[ti]))
    /\ UNCHANGED <<str, colour, layer, point, gridPos, worldPos, data, project, renderer>>

TileFlipY ==
    /\ CanQuery
    /\ \E at \in LoadedLayers :
        \E ti \in 1..Len(AllTiles(LoadedLayer(at))) :
            query' = Call("FlipY", "", <<at[1], at[2], ti>>, 0, 0,
                          FlipY(AllTiles(LoadedLayer(at))[ti]))
    /\ UNCHANGED <<str, colour, layer, point, gridPos, worldPos, data, project, renderer>>

TilesetCustomDataForTile ==
    /\ CanQuery
    /\ \E ti \in 1..Len(project.val.project.Tilesets), tileID \in TileIDs :
        query' = Call("CustomDataForTile", "", <<ti, 0, 0>>, tileID, 0,
                      CustomDataForTile(project.val.project.Tilesets[ti], tileID))
    /\ UNCHANGED <<str, colour, layer, point, gridPos, worldPos, data, project, renderer>>

TilesetEnumsForTile ==
    /\ CanQuery
    /\ \E ti \in 1..Len(project.val.project.Tilesets), tileID \in TileIDs :
        query' = Call("EnumsForTile", "", <<ti, 0, 0>>, tileID, 0,
                      EnumsForTile(project.val.project.Tilesets[ti], tileID))
    /\ UNCHANGED <<str, colour, layer, point, gridPos, worldPos, data, project, renderer>>

\* One of the accessors of a Property, on a Property of a level.
PropertyAccessor ==
    /\ CanQuery
    /\ \E li \in 1..Len(project.val.project.Levels), fn \in Accessors :
        \E pi \in 1..Len(project.val.project.Levels[li].Properties) :
            query' = Call(fn, "", <<li, 0, pi>>, 0, 0,
                          Accessor(fn, project.val.project.Levels[li].Properties[pi]))
    /\ UNCHANGED <<str, colour, layer, point, gridPos, worldPos, data, project, renderer>>

NextLayer ==
    \/ ReadData
    \/ ProjectIntGridConstantByName
    \/ ProjectLevelByIdentifier
    \/ ProjectTilesetByIdentifier
    \/ LevelLayerByIdentifier
    \/ LayerEntityByIdentifier
    \/ LevelPropertyByIdentifierCall
    \/ EntityPropertyByIdentifierCall
    \/ ProjectLevelAt
    \/ LayerAllTiles
    \/ LayerTileAt
    \/ LayerAutoTileAt
    \/ LayerIntegerAt
    \/ LoadedLayerToGridPosition
    \/ LoadedLayerFromGridPosition
    \/ TileFlipX
    \/ TileFlipY
    \/ TilesetCustomDataForTile
    \/ TilesetEnumsForTile
    \/ PropertyAccessor

SpecLayer == InitLayer /\ [][NextLayer]_vars

\* ---------------------------------------------------------------------------
\* Rendering the levels of a loaded Project.  A renderer is made once the
\* Project is read, as in src/example/main.go, and its calls go on after one
\* of them has panicked (the caller may recover).
\* ---------------------------------------------------------------------------

InitRender ==
    /\ IsRenderDoc(data)
    /\ project = NotCalled
    /\ IdleColour
    /\ IdleGrid
    /\ IdleQuery
    /\ IdleRender

NewEbitenRenderer ==
    /\ CanQuery
    /\ renderer = NoRenderer
    /\ renderer' = NewRendererState("EbitenRenderer", [path \in TilesetPaths |-> "absent"])
    /\ UNCHANGED <<str, colour, layer, point, gridPos, worldPos, data, project, query>>

ExampleNewEbitenRenderer ==
    /\ CanQuery
    /\ renderer = NoRenderer
    /\ renderer' = NewRendererState("example.EbitenRenderer", [path \in TilesetPaths |-> "absent"])
    /\ UNCHANGED <<str, colour, layer, point, gridPos, worldPos, data, project, query>>

NewRaylibRenderer ==
    /\ CanQuery
    /\ renderer = NoRenderer
    /\ renderer' = NewRendererState("RaylibRenderer", [path \in TilesetPaths |-> "absent"])
    /\ UNCHANGED <<str, colour, layer, point, gridPos, worldPos, data, project, query>>

\* New of Ebitengine; when an image cannot be read it returns an error and no
\* renderer.
EbitengineNew ==
    /\ CanQuery
    /\ renderer = NoRenderer
    /\ renderer' = NewRendererState("Ebitengine", PreloadedTilesets(project.val.project))
    /\ UNCHANGED <<str, colour, layer, point, gridPos, worldPos, data, project, query>>

RendererNew ==
    /\ CanQuery
    /\ renderer = NoRenderer
    /\ renderer' = NewRendererState("Renderer", PreloadedTilesets(project.val.project))
    /\ UNCHANGED <<str, colour, layer, point, gridPos, worldPos, data, project, query>>

EbitenRendererRender ==
    /\ CanQuery
    /\ renderer.kind = "EbitenRenderer"
    /\ renderer.renders < MaxRenders
    /\ \E index \in 1..Len(project.val.project.Levels) :
        renderer' \in RenderToLayers(renderer, data, project.val.project, index)
    /\ UNCHANGED <<str, colour, layer, point, gridPos, worldPos, data, project, query>>

EbitenRendererClear ==
    /\ renderer.kind = "EbitenRenderer"
    /\ renderer' = Clear(renderer)
    /\ UNCHANGED <<str, colour, layer, point, gridPos, worldPos, data, project, query>>

ExampleEbitenRendererRender ==
    /\ CanQuery
    /\ renderer.kind = "example.EbitenRenderer"
    /\ renderer.renders < MaxRenders
    /\ \E index \in 1..Len(project.val.project.Levels) :
        renderer' \in RenderToLayers(renderer, data, project.val.project, index)
    /\ UNCHANGED <<str, colour, layer, point, gridPos, worldPos, data, project, query>>

ExampleEbitenRendererClear ==
    /\ renderer.kind = "example.EbitenRenderer"
    /\ renderer' = Clear(renderer)
    /\ UNCHANGED <<str, colour, layer, point, gridPos, worldPos, data, project, query>>

RaylibRendererRender ==
    /\ CanQuery
    /\ renderer.kind = "RaylibRenderer"
    /\ renderer.renders < MaxRenders
    /\ \E index \in 1..Len(project.val.project.Levels) :
        renderer' \in RenderToLayers(renderer, data, project.val.project, index)
    /\ UNCHANGED <<str, colour, layer, point, gridPos, worldPos, data, project, query>>

RaylibRendererClear ==
    /\ renderer.kind = "RaylibRenderer"
    /\ renderer' = Clear(renderer)
    /\ UNCHANGED <<str, colour, layer, point, gridPos, worldPos, data, project, query>>

EbitengineRender ==
    /\ CanQuery
    /\ renderer.kind = "Ebitengine"
    /\ renderer.renders < MaxRenders
    /\ \E index \in 0..Len(project.val.project.Levels) :
        renderer' \in RenderToScreen(renderer, data, project.val.project, index)
    /\ UNCHANGED <<str, colour, layer, point, gridPos, worldPos, data, project, query>>

RendererRender ==
    /\ CanQuery
    /\ renderer.kind = "Renderer"
    /\ renderer.renders < MaxRenders
    /\ \E index \in 0..Len(project.val.project.Levels) :
        renderer' \in RenderToScreen(renderer, data, project.val.project, index)
    /\ UNCHANGED <<str, colour, layer, point, gridPos, worldPos, data, project, query>>

NextRender ==
    \/ ReadData
    \/ NewEbitenRenderer
    \/ ExampleNewEbitenRenderer
    \/ NewRaylibRenderer
    \/ EbitengineNew
    \/ RendererNew
    \/ EbitenRendererRender
    \/ EbitenRendererClear
    \/ ExampleEbitenRendererRender
    \/ ExampleEbitenRendererClear
    \/ RaylibRendererRender
    \/ RaylibRendererClear
    \/ EbitengineRender
    \/ RendererRender

SpecRender == InitRender /\ [][NextRender]_vars

(***************************************************************************)
(* Properties of the grid conversions.                                     *)
(***************************************************************************)
RoundTripDone == worldPos.kind = "returned" /\ layer.GridSize > 0

\* C1 as stated: for GridSize g > 0 and every integer (x, y), negative ones
\* included, FromGridPosition(ToGridPosition(x, y)) is (floor(x/g)*g, floor(y/g)*g).
C1_RoundTripFloors ==
    RoundTripDone =>
        worldPos.val = <<(point[1] \div layer.GridSize) * layer.GridSize,
                         (point[2] \div layer.GridSize) * layer.GridSize>>

\* The multiple of g next to x on the side of zero.
TowardZero(x, g) == IF x >= 0 THEN x - (x % g) ELSE -((-x) - ((-x) % g))

\* C1 amended: for GridSize g > 0 the round trip gives, on each axis, the
\* multiple of g reached by rounding toward zero; that is floor(x/g)*g when
\* x >= 0 or g divides x, and floor(x/g)*g + g otherwise.
C1_RoundTripTruncates ==
    RoundTripDone =>
        \A i \in 1..2 :
            LET x == point[i]
                g == layer.GridSize
                w == worldPos.val[i]
            IN  /\ w = TowardZero(x, g)
                /\ (x >= 0 \/ x % g = 0) => w = (x \div g) * g
                /\ (x < 0 /\ x % g # 0) => w = (x \div g) * g + g

\* A negative coordinate that is no multiple of the grid size went through both
\* conversions.
C1_Witness ==
    /\ RoundTripDone
    /\ point = <<-17, 5>>
    /\ layer.GridSize = 16
    /\ worldPos.val = <<-16, 0>>

(***************************************************************************)
(* Properties of the colour parser.                                        *)
(***************************************************************************)
Digits == <<48, 49, 50, 51, 52, 53, 54, 55, 56, 57>>
LowerDigits == <<97, 98, 99, 100, 101, 102>>
UpperDigits == <<65, 66, 67, 68, 69, 70>>

IsHexDigit(b) ==
    \/ \E k \in 1..10 : Digits[k] = b
    \/ \E k \in 1..6 : LowerDigits[k] = b \/ UpperDigits[k] = b

\* The value of a hex digit, read off the digit tables.
HexValue(b) ==
    CHOOSE v \in 0..15 :
        \/ v <= 9 /\ Digits[v + 1] = b
        \/ v >= 10 /\ (LowerDigits[v - 9] = b \/ UpperDigits[v - 9] = b)

WellFormed(s) ==
    /\ Len(s) \in {4, 7}
    /\ s[1] = ChHash
    /\ \A i \in 2..Len(s) : IsHexDigit(s[i])

\* The colour a well-formed string denotes.
Denoted(s) ==
    IF Len(s) = 7
        THEN [R |-> 16 * HexValue(s[2]) + HexValue(s[3]),
              G |-> 16 * HexValue(s[4]) + HexValue(s[5]),
              B |-> 16 * HexValue(s[6]) + HexValue(s[7]), A |-> 255]
    ELSE [R |-> 17 * HexValue(s[2]), G |-> 17 * HexValue(s[3]),
          B |-> 17 * HexValue(s[4]), A |-> 255]

ParserCalled == colour # NotCalled /\ colour.fn = "parseHexColorFast"
AsColorCalled == colour # NotCalled /\ colour.fn = "AsColor"

\* C8: a well-formed '#RRGGBB' or '#RGB' string, in either case of the digits,
\* parses without error to the opaque colour it denotes; '#FFFFFF' is
\* (255,255,255,255), '#000' is (0,0,0,255) and '#F00' is (255,0,0,255).
C8_WellFormedParses ==
    /\ (ParserCalled /\ WellFormed(str)) =>
            colour.ret = Returned([c |-> Denoted(str), err |-> FALSE])
    /\ (AsColorCalled /\ WellFormed(str)) => colour.ret = Returned(Denoted(str))
    /\ (ParserCalled /\ str = <<35, 70, 70, 70, 70, 70, 70>>) =>
            colour.ret.val.c = [R |-> 255, G |-> 255, B |-> 255, A |-> 255]
    /\ (ParserCalled /\ str = <<35, 48, 48, 48>>) =>
            colour.ret.val.c = [R |-> 0, G |-> 0, B |-> 0, A |-> 255]
    /\ (ParserCalled /\ str = <<35, 70, 48, 48>>) =>
            colour.ret.val.c = [R |-> 255, G |-> 0, B |-> 0, A |-> 255]

\* '#a0F' went through the parser: lower- and upper-case digits, doubled.
C8_Witness ==
    /\ ParserCalled
    /\ str = <<35, 97, 48, 70>>
    /\ colour.ret = Returned([c |-> [R |-> 170, G |-> 0, B |-> 255, A |-> 255],
                               err |-> FALSE])

NotParsable(s) == Len(s) = 0 \/ s[1] # ChHash \/ Len(s) \notin {4, 7}

\* C10 as stated: for every string that does not start with '#' or whose length
\* is neither 4 nor 7, the empty string included, the parser returns (it does
\* not crash) and reports the failure, and AsColor returns a colour.
C10_FailureReported ==
    (colour # NotCalled /\ NotParsable(str)) =>
        /\ colour.ret.kind = "returned"
        /\ ParserCalled => colour.ret.val.err

(***************************************************************************)
(* Properties of Read.                                                     *)
(***************************************************************************)
Loaded == project.kind = "returned" /\ ~project.val.err
Proj == project.val.project

\* The places (level, layer) of the document's layers.
LayerPlaces ==
    UNION {{<<li, yi>> : yi \in 1..Len(data.levels[li].layerInstances)} :
            li \in 1..Len(data.levels)}

LayerDocAt(pl) == data.levels[pl[1]].layerInstances[pl[2]]
LayerAt(pl) == Proj.Levels[pl[1]].Layers[pl[2]]

\* C2: for every layer with CellWidth w > 0 and GridSize g and every nonzero
\* entry v at flat index i of that layer's intGridCsv, the layer's IntGrid holds
\* the Integer with ID i, Value v and Position ((i mod w) * g, (i div w) * g).
C2_IntGridCells ==
    Loaded =>
        \A pl \in LayerPlaces :
            LET ld == LayerDocAt(pl)
            IN  \A i \in 0..(Len(ld.intGridCsv) - 1) :
                    (ld.cWid > 0 /\ ld.intGridCsv[i + 1] # 0) =>
                        \E k \in 1..Len(LayerAt(pl).IntGrid) :
                            LayerAt(pl).IntGrid[k] =
                                [ID |-> i, Value |-> ld.intGridCsv[i + 1],
                                 Position |-> <<(i % ld.cWid) * ld.gridSize,
                                                (i \div ld.cWid) * ld.gridSize>>]

\* Two layers of different content were read: the second, two cells wide on a
\* grid of 8, has its cell of flat index 2 at (0, 8).
C2_Witness ==
    /\ Loaded
    /\ Len(data.levels) = 1
    /\ Len(data.levels[1].layerInstances) = 2
    /\ data.levels[1].layerInstances[1].intGridCsv = <<1>>
    /\ data.levels[1].layerInstances[2].intGridCsv = <<0, 0, 2>>
    /\ data.levels[1].layerInstances[2].cWid = 2
    /\ data.levels[1].layerInstances[2].gridSize = 8
    /\ Proj.Levels[1].Layers[2].IntGrid = <<[ID |-> 2, Value |-> 2, Position |-> <<0, 8>>]>>

\* C3: each layer's IntGrid holds exactly one Integer per nonzero entry of the
\* layer's intGridCsv and none for a zero entry, every Value is nonzero, and the
\* IDs ascend strictly.
C3_IntGridNonzeroAscending ==
    Loaded =>
        \A pl \in LayerPlaces :
            LET csv == LayerDocAt(pl).intGridCsv
                cells == LayerAt(pl).IntGrid
                nonzero == {i \in 0..(Len(csv) - 1) : csv[i + 1] # 0}
            IN  /\ {cells[k].ID : k \in 1..Len(cells)} = nonzero
                /\ Len(cells) = Cardinality(nonzero)
                /\ \A k \in 1..Len(cells) : cells[k].Value # 0
                /\ \A k \in 1..(Len(cells) - 1) : cells[k].ID < cells[k + 1].ID

\* A layer with a zero entry between two nonzero ones was read: two cells, IDs
\* 0 and 2.
C3_Witness ==
    /\ Loaded
    /\ Len(data.levels[1].layerInstances) = 1
    /\ data.levels[1].layerInstances[1].intGridCsv = <<1, 0, 2>>
    /\ Len(Proj.Levels[1].Layers[1].IntGrid) = 2
    /\ Proj.Levels[1].Layers[1].IntGrid[2].ID = 2

\* The tiles of a layer, manual and automatic, each with its document entry.
TilePairs(pl) ==
    {<<LayerAt(pl).Tiles[k], LayerDocAt(pl).gridTiles[k]>> :
        k \in 1..Len(LayerDocAt(pl).gridTiles)}
    \cup {<<LayerAt(pl).AutoTiles[k], LayerDocAt(pl).autoLayerTiles[k]>> :
            k \in 1..Len(LayerDocAt(pl).autoLayerTiles)}

\* The position on the tileset of the tile with this ID, from the geometry.
SrcFromGeometry(id, ts) ==
    LET perRow == (ts.Width + ts.Spacing) \div (ts.GridSize + ts.Spacing)
    IN  <<ts.Padding + (id % perRow) * (ts.GridSize + ts.Spacing),
          ts.Padding + (id \div perRow) * (ts.GridSize + ts.Spacing)>>

C5_TilesetBinding ==
    /\ project # NotCalled => Loaded
    /\ Loaded =>
        \A pl \in LayerPlaces :
            LayerDocAt(pl).tilesetDefUid # <<>> =>
                LET uid == LayerDocAt(pl).tilesetDefUid[1]
                    defs == data.defs.tilesets
                    hits == {i \in 1..Len(defs) : defs[i].uid = uid}
                    bound == LayerAt(pl).Tileset
                IN  /\ hits = {} => bound = 0
                    /\ hits # {} =>
                            /\ bound \in hits
                            /\ \A i \in hits : bound <= i
                            /\ Proj.Tilesets[bound].Identifier = defs[bound].identifier

\* Two tilesets with the ID 1 were read, with a layer declaring uid 3, left
\* unbound, and a layer declaring uid 1, bound to the first of the two.
C5_Witness ==
    /\ Loaded
    /\ Len(Proj.Tilesets) = 2
    /\ Proj.Tilesets[1].ID = 1 /\ Proj.Tilesets[1].Identifier = "b"
    /\ Proj.Tilesets[2].ID = 1 /\ Proj.Tilesets[2].Identifier = "a"
    /\ Len(Proj.Levels[1].Layers) = 2
    /\ data.levels[1].layerInstances[1].tilesetDefUid = <<3>>
    /\ data.levels[1].layerInstances[2].tilesetDefUid = <<1>>
    /\ Proj.Levels[1].Layers[1].Tileset = 0
    /\ Proj.Levels[1].Layers[2].Tileset = 1

\* C6 as stated: each Level's Layers is the reverse of the level's
\* layerInstances in the document.
C6_LayersReversed ==
    Loaded =>
        \A li \in 1..Len(data.levels) :
            LET docs == data.levels[li].layerInstances
                n == Len(docs)
            IN  /\ Len(Proj.Levels[li].Layers) = n
                /\ \A k \in 1..n :
                        /\ Proj.Levels[li].Layers[k].Identifier = docs[n + 1 - k].identifier
                        /\ Proj.Levels[li].Layers[k].GridSize = docs[n + 1 - k].gridSize
                        /\ Proj.Levels[li].Layers[k].CellWidth = docs[n + 1 - k].cWid

MalformedColour(s) == s # <<>> /\ (s[1] # ChHash \/ Len(s) \notin {4, 7})

\* C7 as stated: a Level whose background-colour string is unset or empty has
\* the Project's BGColor.
C7_LevelColourDefaults ==
    Loaded =>
        \A li \in 1..Len(data.levels) :
            data.levels[li].bgColor \in {<<>>, <<<<>>>>} =>
                Proj.Levels[li].BGColor = Proj.BGColor

ReadReturned == project.kind = "returned"

\* The document holds a value whose JSON type conflicts with its field.
TypeConflict(d) ==
    \/ \E index \in 1..Len(d.levels) : d.levels[index].wrongType # {}
    \/ \E i \in 1..Len(d.defs.tilesets) : d.defs.tilesets[i].wrongType # {}

\* C11: Read returns a Project and the nil error, or the nil Project and an
\* error, never a Project together with an error; on a document of invalid JSON
\* syntax it returns the nil Project and the error.
C11_ProjectOrError ==
    ReadReturned =>
        /\ project.val.err <=> project.val.project.kind = "nil"
        /\ ~project.val.err <=> project.val.project.kind = "Project"
        /\ ~data.syntaxOK => project.val.err /\ project.val.project.kind = "nil"

\* Read returned on bytes that are no JSON document, and on a level whose
\* "pxWid" is a string.
C11_Witness ==
    /\ ReadReturned
    /\ project.val.err
    /\ \/ ~data.syntaxOK
       \/ data.syntaxOK /\ Len(data.levels) = 2 /\ data.levels[2].wrongType = {"pxWid"}

\* C12: a type conflict anywhere in the document, a tileset definition
\* included, makes Read return an error and no Project.
C12_TypeConflictAborts ==
    ReadReturned /\ TypeConflict(data) =>
        project.val.err /\ project.val.project.kind = "nil"

(***************************************************************************)
(* Lookups.                                                                *)
(***************************************************************************)
Queried(fn) == query.kind = "called" /\ query.fn = fn

\* The list a lookup went through.
QueriedList ==
    CASE query.fn = "LevelByIdentifier" -> Proj.Levels
      [] query.fn = "TilesetByIdentifier" -> Proj.Tilesets
      [] query.fn = "LayerByIdentifier" -> Proj.Levels[query.at[1]].Layers
      [] query.fn = "EntityByIdentifier" ->
            Proj.Levels[query.at[1]].Layers[query.at[2]].Entities
      [] query.fn = "Level.PropertyByIdentifier" -> Proj.Levels[query.at[1]].Properties
      [] query.fn = "Entity.PropertyByIdentifier" ->
            Proj.Levels[query.at[1]].Layers[query.at[2]].Entities[query.at[3]].Properties

Lookups ==
    {"LevelByIdentifier", "TilesetByIdentifier", "LayerByIdentifier", "EntityByIdentifier",
     "Level.PropertyByIdentifier", "Entity.PropertyByIdentifier"}

\* C13: each lookup by identifier returns nil when no element of its list has
\* the identifier, and otherwise the first element in list order that has it,
\* also when several elements share it.
C13_FirstOrNil ==
    query.kind = "called" /\ query.fn \in Lookups =>
        /\ query.result \in 0..Len(QueriedList)
        /\ query.result = 0 <=>
                \A i \in 1..Len(QueriedList) : QueriedList[i].Identifier # query.id
        /\ query.result # 0 =>
                /\ QueriedList[query.result].Identifier = query.id
                /\ \A j \in 1..(query.result - 1) : QueriedList[j].Identifier # query.id

\* EntityByIdentifier("Enemy") on a layer with two entities called "Enemy"
\* returned the first.
C13_Witness ==
    /\ Queried("EntityByIdentifier")
    /\ query.id = "Enemy"
    /\ Len(QueriedList) = 2
    /\ QueriedList[1].Identifier = "Enemy" /\ QueriedList[2].Identifier = "Enemy"
    /\ query.result = 1

(***************************************************************************)
(* LevelAt.                                                                *)
(***************************************************************************)
\* The test as the contract words it.
Within(level, x, y) ==
    /\ level.WorldX <= x /\ x <= level.WorldX + level.Width
    /\ level.WorldY <= y /\ y <= level.WorldY + level.Height

NonNegativeSizes == \A i \in 1..Len(Proj.Levels) : Proj.Levels[i].Width >= 0 /\ Proj.Levels[i].Height >= 0

\* C14: with levels of non-negative size, LevelAt(x, y) returns the first level
\* in list order with WorldX <= x <= WorldX+Width and WorldY <= y <=
\* WorldY+Height, and nil when there is none.
C14_LevelAtInclusive ==
    Queried("LevelAt") /\ NonNegativeSizes =>
        /\ query.result \in 0..Len(Proj.Levels)
        /\ query.result = 0 <=>
                \A i \in 1..Len(Proj.Levels) : ~Within(Proj.Levels[i], query.x, query.y)
        /\ query.result # 0 =>
                /\ Within(Proj.Levels[query.result], query.x, query.y)
                /\ \A j \in 1..(query.result - 1) : ~Within(Proj.Levels[j], query.x, query.y)

\* LevelAt(64, 0) on a level of 64 pixels at the origin followed by its right
\* neighbour returned the first: the point is on the right edge of the one and
\* on the left edge of the other.
C14_Witness ==
    /\ Queried("LevelAt")
    /\ query.x = 64 /\ query.y = 0
    /\ Len(Proj.Levels) = 2
    /\ Proj.Levels[1].WorldX = 0 /\ Proj.Levels[1].Width = 64
    /\ Proj.Levels[2].WorldX = 64 /\ Proj.Levels[2].Width = 64
    /\ Proj.Levels[1].WorldY = 0 /\ Proj.Levels[2].WorldY = 0
    /\ query.result = 1

\* The pixel areas [WorldX, WorldX+Width) x [WorldY, WorldY+Height) of two
\* levels of positive size share a pixel.
AreasOverlap(a, b) ==
    /\ a.WorldX < b.WorldX + b.Width /\ b.WorldX < a.WorldX + a.Width
    /\ a.WorldY < b.WorldY + b.Height /\ b.WorldY < a.WorldY + a.Height

NonOverlapping ==
    /\ \A i \in 1..Len(Proj.Levels) : Proj.Levels[i].Width > 0 /\ Proj.Levels[i].Height > 0
    /\ \A i, j \in 1..Len(Proj.Levels) :
            i # j => ~AreasOverlap(Proj.Levels[i], Proj.Levels[j])

\* C15: when the levels do not overlap, the point of a LevelAt call passes the
\* test of LevelAt for at most one level, the one returned, so the result does
\* not depend on the order of the list.
C15_OneLevelPerPoint ==
    Queried("LevelAt") /\ NonOverlapping =>
        \A i \in 1..Len(Proj.Levels) :
            LevelContains(Proj.Levels[i], query.x, query.y) => query.result = i

(***************************************************************************)
(* Tilesets.                                                               *)
(***************************************************************************)
\* The definition tilesetDef tags tile id with enumName.
Tags(tilesetDef, id, enumName) ==
    \E k \in 1..Len(tilesetDef.enumTags) :
        /\ tilesetDef.enumTags[k].enumValueId = enumName
        /\ \E n \in 1..Len(tilesetDef.enumTags[k].tileIds) :
                tilesetDef.enumTags[k].tileIds[n] = id

\* The definition tilesetDef gives tile id the custom data s.
HasCustomData(tilesetDef, id, s) ==
    \E k \in 1..Len(tilesetDef.customData) :
        tilesetDef.customData[k].tileId = id /\ tilesetDef.customData[k].data = s

\* C16: project.Tilesets holds one Tileset per entry of defs.tilesets in document
\* order; the names in its Enums and the strings in its CustomData are those its
\* own definition declares for the tile, all of the names and nothing from
\* another definition, also when two definitions share an identifier.
C16_OwnTagsAndData ==
    Loaded =>
        /\ Len(Proj.Tilesets) = Len(data.defs.tilesets)
        /\ \A i \in 1..Len(Proj.Tilesets) :
            /\ Proj.Tilesets[i].Identifier = data.defs.tilesets[i].identifier
            /\ \A id \in DOMAIN Proj.Tilesets[i].CustomData :
                    HasCustomData(data.defs.tilesets[i], id, Proj.Tilesets[i].CustomData[id])
            /\ \A id \in DOMAIN Proj.Tilesets[i].Enums :
                    \A n \in 1..Len(Proj.Tilesets[i].Enums[id]) :
                        Tags(data.defs.tilesets[i], id, Proj.Tilesets[i].Enums[id][n])
            /\ \A id \in 0..1, enumName \in {"Solid", "Water"} :
                    Tags(data.defs.tilesets[i], id, enumName) =>
                        /\ id \in DOMAIN Proj.Tilesets[i].Enums
                        /\ \E n \in 1..Len(Proj.Tilesets[i].Enums[id]) :
                                Proj.Tilesets[i].Enums[id][n] = enumName

(***************************************************************************)
(* IntGrid names.                                                          *)
(***************************************************************************)
\* The Integers of every layer of every level.
AllIntegers ==
    UNION {{Proj.Levels[p[1]].Layers[p[2]].IntGrid[n] :
                n \in 1..Len(Proj.Levels[p[1]].Layers[p[2]].IntGrid)} : p \in LayerPlaces}

\* C17: for every value definition of an IntGrid layer definition, the index
\* IntGridConstantByName returns for its identifier equals the Value of the
\* Integers of the cells painted with that value.
C17_IndexIsValue ==
    Loaded /\ Queried("IntGridConstantByName") =>
        \A k \in 1..Len(data.defs.layers) :
            data.defs.layers[k].type = "IntGrid" =>
                \A i \in 1..Len(data.defs.layers[k].intGridValues) :
                    data.defs.layers[k].intGridValues[i].identifier = query.id =>
                        \A n \in AllIntegers :
                            n.Value = data.defs.layers[k].intGridValues[i].value =>
                                n.Value = query.result

\* The number of names the IntGrid definitions among the first n layer
\* definitions declare.
RECURSIVE NamesBefore(_)
NamesBefore(n) ==
    IF n = 0 THEN 0
    ELSE NamesBefore(n - 1)
            + (IF data.defs.layers[n].type = "IntGrid"
                  THEN Len(data.defs.layers[n].intGridValues) ELSE 0)

\* C18: IntGridNames is the concatenation, in document order, of the value
\* identifiers of the layer definitions of type IntGrid and of no other
\* definition; IntGridConstantByName(n) is the smallest index at which
\* IntGridNames holds n, counted from 0, and -1 when n is not in the list.
C18_NamesAndIndex ==
    Loaded =>
        /\ Len(Proj.IntGridNames) = NamesBefore(Len(data.defs.layers))
        /\ \A k \in 1..Len(data.defs.layers) :
                data.defs.layers[k].type = "IntGrid" =>
                    \A i \in 1..Len(data.defs.layers[k].intGridValues) :
                        Proj.IntGridNames[NamesBefore(k - 1) + i]
                            = data.defs.layers[k].intGridValues[i].identifier
        /\ Queried("IntGridConstantByName") =>
                /\ query.result \in -1..(Len(Proj.IntGridNames) - 1)
                /\ query.result = -1 <=>
                        \A i \in 1..Len(Proj.IntGridNames) : Proj.IntGridNames[i] # query.id
                /\ query.result # -1 =>
                        /\ Proj.IntGridNames[query.result + 1] = query.id
                        /\ \A j \in 1..query.result : Proj.IntGridNames[j] # query.id

\* A Tiles definition that declares "wall" came before an IntGrid definition
\* that declares "water" twice: the names are the two of the IntGrid
\* definition, and IntGridConstantByName("water") returned 0.
C18_Witness ==
    /\ Loaded
    /\ Queried("IntGridConstantByName")
    /\ Len(data.defs.layers) = 2
    /\ data.defs.layers[1].type = "Tiles"
    /\ Len(data.defs.layers[1].intGridValues) = 1
    /\ data.defs.layers[2].type = "IntGrid"
    /\ Proj.IntGridNames = <<"water", "water">>
    /\ query.id = "water"
    /\ query.result = 0

(***************************************************************************)
(* Background images.                                                      *)
(***************************************************************************)
\* C19: after Read, a level has a BGImage exactly when its "bgRelPath" in the
\* document is a non-empty string; the BGImage carries that path, the two
\* entries of __bgPos.scale as ScaleX and ScaleY, and the four entries of
\* __bgPos.cropRect in order as CropRect; otherwise BGImage is nil.
C19_BGImageFromDocument ==
    Loaded =>
        \A index \in 1..Len(Proj.Levels) :
            IF data.levels[index].bgRelPath # <<>> /\ data.levels[index].bgRelPath[1] # ""
                THEN /\ Proj.Levels[index].BGImage.kind = "BGImage"
                     /\ Proj.Levels[index].BGImage.Path = data.levels[index].bgRelPath[1]
                     /\ Proj.Levels[index].BGImage.ScaleX = data.levels[index].bgPos[1].scale[1]
                     /\ Proj.Levels[index].BGImage.ScaleY = data.levels[index].bgPos[1].scale[2]
                     /\ Len(Proj.Levels[index].BGImage.CropRect) = 4
                     /\ \A k \in 1..4 :
                            Proj.Levels[index].BGImage.CropRect[k]
                                = data.levels[index].bgPos[1].cropRect[k]
            ELSE Proj.Levels[index].BGImage.kind = "nil"

\* Read returned a first level with the image "bg.png", scale (2, 1) and crop
\* rectangle (8, 4, 64, 32), and a second level, whose "bgRelPath" is "",
\* without image.
C19_Witness ==
    /\ Loaded
    /\ Len(data.levels) = 2
    /\ data.levels[1].bgRelPath = <<"bg.png">>
    /\ data.levels[2].bgRelPath = <<"">>
    /\ Proj.Levels[1].BGImage.kind = "BGImage"
    /\ Proj.Levels[1].BGImage.ScaleX = 2 /\ Proj.Levels[1].BGImage.ScaleY = 1
    /\ Proj.Levels[1].BGImage.CropRect = <<8, 4, 64, 32>>
    /\ Proj.Levels[2].BGImage.kind = "nil"

(***************************************************************************)
(* Grid sizes.                                                             *)
(***************************************************************************)
\* C20: in every Project Read returns, a layer with a Tileset has GridSize > 0.
C20_BoundLayerGridPositive ==
    Loaded =>
        \A p \in LayerPlaces : LayerAt(p).Tileset # 0 => LayerAt(p).GridSize > 0

(***************************************************************************)
(* Queries on layers, tiles, tilesets and properties.                      *)
(***************************************************************************)
\* The layer, in the Project and in the document, the last query was asked of.
QueriedLayer == LayerAt(<<query.at[1], query.at[2]>>)
QueriedLayerDoc == LayerDocAt(<<query.at[1], query.at[2]>>)

\* The result of asking the query q of the Project as it is now.
Asked(q) ==
    CASE q.fn = "LevelByIdentifier" -> LevelByIdentifier(Proj, q.id)
      [] q.fn = "TilesetByIdentifier" -> TilesetByIdentifier(Proj.Tilesets, q.id)
      [] q.fn = "LayerByIdentifier" -> LayerByIdentifier(Proj.Levels[q.at[1]], q.id)
      [] q.fn = "EntityByIdentifier" ->
            EntityByIdentifier(Proj.Levels[q.at[1]].Layers[q.at[2]], q.id)
      [] q.fn = "Level.PropertyByIdentifier" ->
            LevelPropertyByIdentifier(Proj.Levels[q.at[1]], q.id)
      [] q.fn = "Entity.PropertyByIdentifier" ->
            EntityPropertyByIdentifier(
                Proj.Levels[q.at[1]].Layers[q.at[2]].Entities[q.at[3]], q.id)
      [] q.fn = "LevelAt" -> LevelAt(Proj, q.x, q.y)
      [] q.fn = "IntGridConstantByName" -> IntGridConstantByName(Proj, q.id)
      [] q.fn = "AllTiles" -> AllTiles(Proj.Levels[q.at[1]].Layers[q.at[2]])
      [] q.fn = "TileAt" -> TileAt(Proj.Levels[q.at[1]].Layers[q.at[2]], q.x, q.y)
      [] q.fn = "AutoTileAt" -> AutoTileAt(Proj.Levels[q.at[1]].Layers[q.at[2]], q.x, q.y)
      [] q.fn = "IntegerAt" -> IntegerAt(Proj.Levels[q.at[1]].Layers[q.at[2]], q.x, q.y)
      [] q.fn = "ToGridPosition" ->
            ToGridPosition(Proj.Levels[q.at[1]].Layers[q.at[2]], q.x, q.y)
      [] q.fn = "FromGridPosition" ->
            FromGridPosition(Proj.Levels[q.at[1]].Layers[q.at[2]], q.x, q.y)
      [] q.fn = "FlipX" -> FlipX(AllTiles(Proj.Levels[q.at[1]].Layers[q.at[2]])[q.at[3]])
      [] q.fn = "FlipY" -> FlipY(AllTiles(Proj.Levels[q.at[1]].Layers[q.at[2]])[q.at[3]])
      [] q.fn = "CustomDataForTile" -> CustomDataForTile(Proj.Tilesets[q.at[1]], q.x)
      [] q.fn = "EnumsForTile" -> EnumsForTile(Proj.Tilesets[q.at[1]], q.x)
      [] OTHER -> Accessor(q.fn, Proj.Levels[q.at[1]].Properties[q.at[3]])

\* C21: every step taken on a loaded Project, that is every query, leaves the
\* Project as it was, also when the query is an accessor that panics on the
\* type of the value; and the query just answered, asked again of the Project
\* after the step, gives the answer it gave.
C21_QueriesLeaveProject ==
    [][Loaded =>
        /\ project' = project
        /\ (query.kind = "called" => query.result = Asked(query))']_vars

\* AllTiles was asked of a layer with two tiles and an auto-layer tile and
\* returned the three of them.
C21_Witness ==
    /\ Loaded
    /\ Queried("AllTiles")
    /\ Len(QueriedLayer.Tiles) = 2
    /\ Len(QueriedLayer.AutoTiles) = 1
    /\ Len(query.result) = 3

\* C22: IntegerAt(x, y) on a layer with GridSize > 0 returns the cell of the
\* grid cell that contains the world point (x, y): the cell at the grid position
\* (x, y) divided by GridSize and rounded down, nil when there is none.
C22_IntegerAtWorldSpace ==
    Loaded /\ Queried("IntegerAt") /\ QueriedLayer.GridSize > 0 =>
        query.result = IntegerAtWorld(QueriedLayer, query.x, query.y)

\* Bit n of the byte f is set.
BitSet(f, n) == (f \div (2 ^ n)) % 2 = 1

\* The "f" of the tile FlipX or FlipY was asked of.
QueriedFlip ==
    (QueriedLayerDoc.gridTiles \o QueriedLayerDoc.autoLayerTiles)[query.at[3]].f

\* C23: FlipX() is true exactly when bit 0 of the tile's "f" is set, FlipY()
\* exactly when bit 1 is set, whatever the other bits are.
C23_FlipBits ==
    /\ Loaded /\ Queried("FlipX") => (query.result <=> BitSet(QueriedFlip, 0))
    /\ Loaded /\ Queried("FlipY") => (query.result <=> BitSet(QueriedFlip, 1))

\* FlipY was asked of a tile with "f" = 5, bits 0 and 2 set and bit 1 clear,
\* and answered false.
C23_Witness ==
    /\ Loaded
    /\ Queried("FlipY")
    /\ QueriedFlip = 5
    /\ query.result = FALSE

\* C24: after Read, a layer whose document entry has no "__tilesetDefUid" has
\* a nil Tileset, whatever tilesets the document defines.
C24_NoUidNoTileset ==
    Loaded =>
        \A pl \in LayerPlaces :
            LayerDocAt(pl).tilesetDefUid = <<>> => LayerAt(pl).Tileset = 0

\* The level declares a background path and lacks "__bgPos", or two entries of
\* its "scale", or four entries of its "cropRect".
BackgroundIncomplete(levelData) ==
    /\ levelData.bgRelPath # <<>>
    /\ levelData.bgRelPath[1] # ""
    /\ \/ levelData.bgPos = <<>>
       \/ Len(levelData.bgPos[1].scale) < 2
       \/ Len(levelData.bgPos[1].cropRect) < 4

\* C25: Read of a well-formed document with a level whose background is
\* incomplete does not return, neither a Project nor an error: it panics.
C25_IncompleteBackgroundPanics ==
    /\ project # NotCalled
    /\ data.syntaxOK
    /\ \A index \in 1..Len(data.levels) : data.levels[index].wrongType = {}
    /\ \E index \in 1..Len(data.levels) : BackgroundIncomplete(data.levels[index])
    => project.kind = "panic"

\* Read panicked on a level with the background path "bg.png" and no
\* "__bgPos".
C25_Witness ==
    /\ project.kind = "panic"
    /\ Len(data.levels) = 1
    /\ data.levels[1].bgRelPath = <<"bg.png">>
    /\ data.levels[1].bgPos = <<>>

\* The places in the list tiles of the tiles whose "px", divided by g as Go
\* divides, is (x, y).
TilesInCell(tiles, g, x, y) ==
    {i \in 1..Len(tiles) : GoDiv(tiles[i].px[1], g) = x /\ GoDiv(tiles[i].px[2], g) = y}

\* The list TileAt, respectively AutoTileAt, scans.
QueriedTileDocs ==
    IF query.fn = "TileAt" THEN QueriedLayerDoc.gridTiles ELSE QueriedLayerDoc.autoLayerTiles

\* C26: on a layer with GridSize > 0, TileAt(x, y) and AutoTileAt(x, y) return
\* the first tile of Tiles, respectively AutoTiles, whose pixel position divided
\* by GridSize is (x, y), and nil when there is none, whatever the offsets of
\* the layer are.
C26_TileAtGrid ==
    Loaded /\ (Queried("TileAt") \/ Queried("AutoTileAt")) /\ QueriedLayerDoc.gridSize > 0 =>
        LET hits == TilesInCell(QueriedTileDocs, QueriedLayerDoc.gridSize, query.x, query.y)
        IN  /\ query.result.kind = "returned"
            /\ hits = {} => query.result.val = 0
            /\ hits # {} =>
                    /\ query.result.val \in hits
                    /\ \A i \in hits : query.result.val <= i

\* TileAt(1, 1) on a layer at the offset (16, 16), with tiles at the pixels
\* (16, 16) and (24, 16), returned the first of the two.
C26_Witness ==
    /\ Loaded
    /\ Queried("TileAt")
    /\ query.x = 1 /\ query.y = 1
    /\ QueriedLayerDoc.pxTotalOffsetX = 16
    /\ Len(QueriedLayerDoc.gridTiles) = 2
    /\ QueriedLayerDoc.gridTiles[1].px = <<16, 16>>
    /\ QueriedLayerDoc.gridTiles[2].px = <<24, 16>>
    /\ query.result = Returned(1)

RenderedLevelLayers == Proj.Levels[renderer.level].Layers

\* The places in RenderedLayers of the images made for the layer layerIndex of
\* the level last rendered.
ImagesOf(layerIndex) ==
    {i \in 1..Len(renderer.RenderedLayers) :
        renderer.RenderedLayers[i] = <<renderer.level, layerIndex>>}

\* C28: after Render of a level, by the EbitenRenderer of the example, by
\* Ebitengine or by Renderer, when the level has a layer of type Tiles with at
\* least one tile and no Tileset, the call has not panicked and nothing was
\* drawn for that layer.
C28_NoTilesetDrawsNothing ==
    Loaded /\ renderer.kind \in {"example.EbitenRenderer", "Ebitengine", "Renderer"}
           /\ renderer.op = "Render" /\ renderer.level # 0 =>
        \A layerIndex \in 1..Len(RenderedLevelLayers) :
            LET l == RenderedLevelLayers[layerIndex]
            IN  l.Type = "Tiles" /\ Len(l.Tiles) > 0 /\ l.Tileset = 0 =>
                    /\ renderer.outcome # "panic"
                    /\ <<renderer.level, layerIndex>> \notin renderer.drawn

\* The layer has tiles of the list the renderer of that kind draws.
HasTilesToRender(kind, l) ==
    IF kind = "EbitenRenderer"
        THEN \/ l.Type = "Tiles" /\ Len(l.Tiles) > 0
             \/ l.Type \in {"IntGrid", "AutoLayer"} /\ Len(l.AutoTiles) > 0
    ELSE l.Type \in {"Tiles", "IntGrid", "AutoLayer"} /\ Len(l.Tiles) + Len(l.AutoTiles) > 0

\* C29: after a Render of an EbitenRenderer that returned, RenderedLayers holds
\* images of layers of the level given to that Render only, one for each of its
\* layers that is visible and has a tile to render, and none for a layer that
\* is not visible.
C29_VisibleLayersRendered ==
    Loaded /\ renderer.kind \in {"EbitenRenderer", "example.EbitenRenderer"}
           /\ renderer.op = "Render" /\ renderer.outcome = "ok" =>
        /\ \A i \in 1..Len(renderer.RenderedLayers) :
                renderer.RenderedLayers[i][1] = renderer.level
        /\ \A layerIndex \in 1..Len(RenderedLevelLayers) :
                LET l == RenderedLevelLayers[layerIndex]
                IN  Cardinality(ImagesOf(layerIndex))
                        = IF l.Visible /\ HasTilesToRender(renderer.kind, l) THEN 1 ELSE 0

\* The renderers that load tilesets through their Loader.
LoaderKinds == {"EbitenRenderer", "example.EbitenRenderer", "RaylibRenderer"}

\* C30: in every call of Render or Clear on a renderer with a Loader, a path
\* with an entry in Tilesets, with or without image, keeps the entry and is
\* not loaded, and no path is ever loaded a second time.
C30_LoadedOncePerPath ==
    [][renderer.kind \in LoaderKinds =>
        \A path \in TilesetPaths :
            /\ renderer'.loads[path] <= 1
            /\ renderer.Tilesets[path] # "absent" =>
                    /\ renderer'.Tilesets[path] = renderer.Tilesets[path]
                    /\ renderer'.loads[path] = renderer.loads[path]]_vars

\* After two calls of Render and a call of Clear, "a.png", whose load gave no
\* image, has its entry and was loaded once.
C30_Witness ==
    /\ renderer.kind = "EbitenRenderer"
    /\ renderer.renders = 2
    /\ renderer.op = "Clear"
    /\ renderer.Tilesets["a.png"] = "nil"
    /\ renderer.loads["a.png"] = 1

====
